---------------------------- MODULE Spec2Model ----------------------------
(***************************************************************************)
(* A model of the query-construction layer of mcp-localbridge              *)
(* (db/query_builder.go), of the schema lookups of its repositories and    *)
(* of the tool handlers that build and send queries (tools/db_tools.go,    *)
(* insights/analytics.go, insights/semantic_summary.go); of concurrent     *)
(* calls on one builder; of the redis_scan tool (tools/redis_tools.go);    *)
(* of the introspection tool and its cache; and of the transport manager   *)
(* with its transports (transports/manager.go).  Each part has its own     *)
(* specification and leaves the variables of the others untouched.         *)
(*                                                                         *)
(* A Go string is modelled as the sequence of its runes, each rune being   *)
(* its Unicode code point, so that the range comparisons of                *)
(* isValidIdentifier and the case mapping of strings.ToUpper are the ones  *)
(* the code performs.  A condition value (Go's `any`) is a tagged record.  *)
(* A condition map is a function from key strings to values; the order in  *)
(* which `range` visits it is not specified by Go and is drawn afresh on   *)
(* every call.                                                             *)
(***************************************************************************)
EXTENDS Integers, Sequences, FiniteSets, TLC

VARIABLES qb, call, ncalls, out, prev, srv, request, sent, response,
          gos, mem, scan, intro, mgr

vars == <<qb, call, ncalls, out, prev, srv, request, sent, response,
          gos, mem, scan, intro, mgr>>

\* The variables of the parts of the program a specification leaves out.
Idle == "idle"
builderVars == <<call, ncalls, out, prev>>
toolVars == <<srv, request, sent, response>>

---------------------------------------------------------------------------
(* Bounds of the model. *)

\* Largest number of entries of a condition map.
MaxConds == 2
\* The largest limit drawn; limits are -1, 0, 1 and MaxLimit.
MaxLimit == 10
\* Offsets are drawn from -1 .. MaxOffset.
MaxOffset == 1
\* Identifiers handed to isValidIdentifier have at most this many runes.
MaxIdentLen == 2
\* ORDER BY strings handed to isValidOrderBy are made of at most this many atoms.
MaxOrderByAtoms == 3
\* ORDER BY strings handed to BuildSelect are made of at most this many atoms.
MaxSelectOrderByAtoms == 2
\* Aggregate function names are made of at most this many atoms.
MaxAggAtoms == 2
\* The same call is issued at most this many times in SpecTwice.
MaxCalls == 2
\* Names handed to quoteIdentifier have at most this many runes.
MaxQuoteLen == 3
\* The configured MaxScanKeys is drawn from 0 .. MaxScanKeysBound.
MaxScanKeysBound == 3
\* A SCAN reply carries at most this many keys.
MaxReplyKeys == 2
\* The backend answers at most this many SCAN calls of one request.
MaxScans == 3

---------------------------------------------------------------------------
(* Go's strings and fmt packages, as far as the builder uses them. *)

\* unicode.IsSpace: the white space runes of Unicode.
IsSpace(c) ==
    \/ c \in {9, 10, 11, 12, 13, 32, 133, 160, 5760, 8232, 8233, 8239, 8287, 12288}
    \/ (c >= 8192 /\ c <= 8202)

\* unicode.ToUpper: ASCII lower case letters, and the two non-ASCII runes
\* whose upper case is an ASCII letter (U+0131 dotless i, U+017F long s).
\* Every other rune the model draws has no upper case mapping.
ToUpperRune(c) ==
    IF c >= 97 /\ c <= 122 THEN c - 32
    ELSE IF c = 305 THEN 73
    ELSE IF c = 383 THEN 83
    ELSE c

\* strings.ToUpper
ToUpper(s) == [i \in 1..Len(s) |-> ToUpperRune(s[i])]

\* strings.TrimLeft(s, cutset) for a predicate given as a set test.
RECURSIVE TrimLeftSet(_, _)
TrimLeftSet(s, cutset) ==
    IF s # <<>> /\ Head(s) \in cutset THEN TrimLeftSet(Tail(s), cutset) ELSE s

RECURSIVE TrimRightSet(_, _)
TrimRightSet(s, cutset) ==
    IF s # <<>> /\ s[Len(s)] \in cutset
    THEN TrimRightSet(SubSeq(s, 1, Len(s) - 1), cutset)
    ELSE s

\* strings.Trim(s, cutset)
Trim(s, cutset) == TrimRightSet(TrimLeftSet(s, cutset), cutset)

RECURSIVE TrimLeftSpace(_)
TrimLeftSpace(s) ==
    IF s # <<>> /\ IsSpace(Head(s)) THEN TrimLeftSpace(Tail(s)) ELSE s

RECURSIVE TrimRightSpace(_)
TrimRightSpace(s) ==
    IF s # <<>> /\ IsSpace(s[Len(s)])
    THEN TrimRightSpace(SubSeq(s, 1, Len(s) - 1))
    ELSE s

\* strings.TrimSpace
TrimSpace(s) == TrimRightSpace(TrimLeftSpace(s))

\* strings.Split(s, sep) for a one-rune separator: always at least one part.
RECURSIVE SplitAcc(_, _, _, _)
SplitAcc(s, sep, i, cur) ==
    IF i > Len(s) THEN <<cur>>
    ELSE IF s[i] = sep THEN <<cur>> \o SplitAcc(s, sep, i + 1, <<>>)
    ELSE SplitAcc(s, sep, i + 1, Append(cur, s[i]))

Split(s, sep) == SplitAcc(s, sep, 1, <<>>)

\* strings.Fields: the maximal runs of non-space runes.
RECURSIVE FieldsAcc(_, _, _)
FieldsAcc(s, i, cur) ==
    IF i > Len(s) THEN (IF cur = <<>> THEN <<>> ELSE <<cur>>)
    ELSE IF IsSpace(s[i])
         THEN (IF cur = <<>> THEN <<>> ELSE <<cur>>) \o FieldsAcc(s, i + 1, <<>>)
    ELSE FieldsAcc(s, i + 1, Append(cur, s[i]))

Fields(s) == FieldsAcc(s, 1, <<>>)

\* strings.Join
RECURSIVE Join(_, _)
Join(elems, sep) ==
    IF elems = <<>> THEN <<>>
    ELSE IF Len(elems) = 1 THEN elems[1]
    ELSE elems[1] \o sep \o Join(Tail(elems), sep)

\* strings.Contains
Contains(s, sub) ==
    \E i \in 0..(Len(s) - Len(sub)) : SubSeq(s, i + 1, i + Len(sub)) = sub

\* The decimal digits fmt's %d prints for n >= 0.
RECURSIVE Digits(_)
Digits(n) == IF n < 10 THEN <<48 + n>> ELSE Digits(n \div 10) \o <<48 + (n % 10)>>

\* fmt.Sprintf("%d", n)
Itoa(n) == IF n < 0 THEN <<45>> \o Digits(0 - n) ELSE Digits(n)

---------------------------------------------------------------------------
(* Condition values: Go's `any` holding a string, an int or a bool. *)

StrVal(s) == [t |-> "string", s |-> s, n |-> 0, b |-> FALSE]
IntVal(n) == [t |-> "int", s |-> <<>>, n |-> n, b |-> FALSE]
BoolVal(b) == [t |-> "bool", s |-> <<>>, n |-> 0, b |-> b]

\* The text fmt prints for a value (%v): the string itself, the decimal
\* digits, true or false.
RenderValue(v) ==
    IF v.t = "string" THEN v.s
    ELSE IF v.t = "int" THEN Itoa(v.n)
    ELSE IF v.b THEN <<116, 114, 117, 101>>
    ELSE <<102, 97, 108, 115, 101>>


---------------------------------------------------------------------------
(* db/query_builder.go: the helpers of QueryBuilder.  The receiver's only *)
(* field, driver, is passed as the first argument.                         *)

\* Backticks for "mysql" alone: every other dialect gets double quotes.
MutQuoteBackticksForMySQLOnly(driver, identifier) ==
    IF driver = "mysql"
    THEN <<96>> \o identifier \o <<96>>
    ELSE <<34>> \o identifier \o <<34>>

\* QueryBuilder.quote: double quotes for "postgres", backticks otherwise.
quote(driver, identifier) ==
    IF driver = "postgres"
    THEN <<34>> \o identifier \o <<34>>
    ELSE <<96>> \o identifier \o <<96>>

\* A placeholder numbered from 0 instead of 1.
MutPlaceholderZeroBased(driver, position) ==
    IF driver = "postgres"
    THEN <<36>> \o Itoa(position - 1)
    ELSE <<63>>

\* QueryBuilder.placeholder: $<position> for "postgres", ? otherwise.
placeholder(driver, position) ==
    IF driver = "postgres"
    THEN <<36>> \o Itoa(position)
    ELSE <<63>>

\* The rune test with > 'a' in place of >= 'a'.
MutIdentRuneOffByOne(c) ==
    \/ (c > 97 /\ c <= 122)
    \/ (c >= 65 /\ c <= 90)
    \/ (c >= 48 /\ c <= 57)
    \/ c = 95
    \/ c = 46

\* The test of one rune in isValidIdentifier's loop.
IdentRune(c) ==
    \/ (c >= 97 /\ c <= 122)
    \/ (c >= 65 /\ c <= 90)
    \/ (c >= 48 /\ c <= 57)
    \/ c = 95
    \/ c = 46

\* isValidIdentifier's loop over the runes of s, returning at the first bad one.
RECURSIVE IdentScan(_, _)
IdentScan(s, i) ==
    IF i > Len(s) THEN TRUE
    ELSE IF ~IdentRune(s[i]) THEN FALSE
    ELSE IdentScan(s, i + 1)

\* QueryBuilder.isValidIdentifier
isValidIdentifier(s) ==
    IF s = <<>> THEN FALSE ELSE IdentScan(s, 1)

\* isValidOrderBy's inner loop over the tokens of one part.
RECURSIVE OrderByTokens(_, _)
OrderByTokens(tokens, i) ==
    IF i > Len(tokens) THEN TRUE
    ELSE IF i = 1
         THEN (IF ~isValidIdentifier(tokens[i]) THEN FALSE
               ELSE OrderByTokens(tokens, i + 1))
    ELSE IF tokens[i] # <<65, 83, 67>> /\ tokens[i] # <<68, 69, 83, 67>> THEN FALSE
    ELSE OrderByTokens(tokens, i + 1)

\* isValidOrderBy's outer loop over the comma separated parts.
RECURSIVE OrderByParts(_, _)
OrderByParts(parts, i) ==
    IF i > Len(parts) THEN TRUE
    ELSE IF ~OrderByTokens(Fields(TrimSpace(parts[i])), 1) THEN FALSE
    ELSE OrderByParts(parts, i + 1)

\* QueryBuilder.isValidOrderBy: the checks run on an upper-cased, trimmed copy.
isValidOrderBy(orderBy) ==
    OrderByParts(Split(ToUpper(TrimSpace(orderBy)), 44), 1)

\* QueryBuilder.quoteIdentifier: strips surrounding ` and " and quotes the
\* rest, whether or not it is a valid identifier (both branches quote).
\* The name wrapped as it is given, quotes it already has included.
MutQuoteIdentifierNoTrim(driver, identifier) == quote(driver, identifier)

quoteIdentifier(driver, identifier) ==
    LET trimmed == Trim(identifier, {96, 34})
    IN  IF ~isValidIdentifier(trimmed)
        THEN quote(driver, trimmed)
        ELSE quote(driver, trimmed)

---------------------------------------------------------------------------
(* BuildSelect, BuildCount, BuildAggregation.  A result is the record of  *)
(* the returned values; clauses is the final value of the local           *)
(* whereClauses and order the order in which range visited the map.       *)

Result(text, params, err, clauses, order) ==
    [text |-> text, params |-> params, err |-> err, clauses |-> clauses,
     order |-> order, ret |-> FALSE]

\* The result of a function returning a bool.
BoolResult(b) ==
    [text |-> <<>>, params |-> <<>>, err |-> "nil", clauses |-> <<>>,
     order |-> <<>>, ret |-> b]

\* No call has returned yet.
NoResult ==
    [text |-> <<>>, params |-> <<>>, err |-> "none", clauses |-> <<>>,
     order |-> <<>>, ret |-> FALSE]

\* The LIKE test with % alone: a string with _ is compared by equality.
MutIsLikePatternPercentOnly(value) ==
    value.t = "string" /\ Contains(value.s, <<37>>)

\* value.(string) holds and the string contains % or _.
IsLikePattern(value) ==
    value.t = "string" /\ (Contains(value.s, <<37>>) \/ Contains(value.s, <<95>>))

\* A clause with the value printed into the text instead of a placeholder.
MutSelectConditionInline(driver, key, value, position) ==
    quoteIdentifier(driver, key) \o <<32, 61, 32, 39>> \o RenderValue(value) \o <<39>>

\* The clause BuildSelect's loop appends for one key and value.
SelectCondition(driver, key, value, position) ==
    IF IsLikePattern(value)
    THEN quoteIdentifier(driver, key) \o <<32, 76, 73, 75, 69, 32>>
             \o placeholder(driver, position)
    ELSE quoteIdentifier(driver, key) \o <<32, 61, 32>>
             \o placeholder(driver, position)

\* The loop with each value put at the front of params instead of its end.
RECURSIVE MutSelectWhereLoopPrepend(_, _, _, _, _, _)
MutSelectWhereLoopPrepend(driver, conditions, order, i, whereClauses, params) ==
    IF i > Len(order) THEN [clauses |-> whereClauses, params |-> params]
    ELSE LET key == order[i]
             value == conditions[key]
         IN  MutSelectWhereLoopPrepend(driver, conditions, order, i + 1,
                 Append(whereClauses,
                        SelectCondition(driver, key, value, Len(params) + 1)),
                 <<value>> \o params)

\* BuildSelect's loop over the condition map, visited in `order`.
RECURSIVE SelectWhereLoop(_, _, _, _, _, _)
SelectWhereLoop(driver, conditions, order, i, whereClauses, params) ==
    IF i > Len(order) THEN [clauses |-> whereClauses, params |-> params]
    ELSE LET key == order[i]
             value == conditions[key]
         IN  SelectWhereLoop(driver, conditions, order, i + 1,
                 Append(whereClauses,
                        SelectCondition(driver, key, value, Len(params) + 1)),
                 Append(params, value))

\* The ORDER BY step without the validation.
MutOrderByClauseUnchecked(orderBy) ==
    IF orderBy # <<>>
    THEN <<32, 79, 82, 68, 69, 82, 32, 66, 89, 32>> \o orderBy
    ELSE <<>>

\* BuildSelect's ORDER BY step: the caller's string, if it validates.
OrderByClause(orderBy) ==
    IF orderBy # <<>>
    THEN (IF isValidOrderBy(orderBy)
          THEN <<32, 79, 82, 68, 69, 82, 32, 66, 89, 32>> \o orderBy
          ELSE <<>>)
    ELSE <<>>

\* The LIMIT step with >= 0 in place of > 0.
MutLimitOffsetFromZero(limit, offset) ==
    (IF limit >= 0 THEN <<32, 76, 73, 77, 73, 84, 32>> \o Itoa(limit) ELSE <<>>)
    \o (IF offset > 0 THEN <<32, 79, 70, 70, 83, 69, 84, 32>> \o Itoa(offset) ELSE <<>>)

\* BuildSelect's LIMIT and OFFSET steps.
LimitOffsetClause(limit, offset) ==
    (IF limit > 0 THEN <<32, 76, 73, 77, 73, 84, 32>> \o Itoa(limit) ELSE <<>>)
    \o (IF offset > 0 THEN <<32, 79, 70, 70, 83, 69, 84, 32>> \o Itoa(offset) ELSE <<>>)

\* QueryBuilder.BuildSelect
BuildSelect(driver, table, conditions, order, limit, offset, orderBy) ==
    LET select == <<83, 69, 76, 69, 67, 84, 32, 42, 32, 70, 82, 79, 77, 32>>
                      \o quoteIdentifier(driver, table)
        w == SelectWhereLoop(driver, conditions, order, 1, <<>>, <<>>)
        where == IF Cardinality(DOMAIN conditions) > 0
                 THEN <<32, 87, 72, 69, 82, 69, 32>>
                          \o Join(w.clauses, <<32, 65, 78, 68, 32>>)
                 ELSE <<>>
    IN  Result(select \o where \o OrderByClause(orderBy)
                   \o LimitOffsetClause(limit, offset),
               w.params, "nil", w.clauses, order)

\* BuildCount's clause without the LIKE test: always an equality.
MutCountConditionEqualityOnly(driver, key, value, position) ==
    quoteIdentifier(driver, key) \o <<32, 61, 32>> \o placeholder(driver, position)

\* The clause BuildCount's loop appends for one key and value.
CountCondition(driver, key, value, position) ==
    IF IsLikePattern(value)
    THEN quoteIdentifier(driver, key) \o <<32, 76, 73, 75, 69, 32>>
             \o placeholder(driver, position)
    ELSE quoteIdentifier(driver, key) \o <<32, 61, 32>>
             \o placeholder(driver, position)

\* BuildCount's loop over the condition map, visited in `order`.
RECURSIVE CountWhereLoop(_, _, _, _, _, _)
CountWhereLoop(driver, conditions, order, i, whereClauses, params) ==
    IF i > Len(order) THEN [clauses |-> whereClauses, params |-> params]
    ELSE LET key == order[i]
             value == conditions[key]
         IN  CountWhereLoop(driver, conditions, order, i + 1,
                 Append(whereClauses,
                        CountCondition(driver, key, value, Len(params) + 1)),
                 Append(params, value))

\* QueryBuilder.BuildCount
BuildCount(driver, table, conditions, order) ==
    LET select == <<83, 69, 76, 69, 67, 84, 32, 67, 79, 85, 78, 84, 40, 42, 41,
                    32, 70, 82, 79, 77, 32>> \o quoteIdentifier(driver, table)
        w == CountWhereLoop(driver, conditions, order, 1, <<>>, <<>>)
        where == IF Cardinality(DOMAIN conditions) > 0
                 THEN <<32, 87, 72, 69, 82, 69, 32>>
                          \o Join(w.clauses, <<32, 65, 78, 68, 32>>)
                 ELSE <<>>
    IN  Result(select \o where, w.params, "nil", w.clauses, order)

\* The keys of BuildAggregation's validAggFuncs map.
validAggFuncs ==
    { <<83, 85, 77>>, <<65, 86, 71>>, <<77, 73, 78>>, <<77, 65, 88>>,
      <<67, 79, 85, 78, 84>> }

\* No normalisation: the allow-list is compared case-sensitively.
MutNormalizeAggFuncNone(aggFunc) == aggFunc

\* BuildAggregation's normalisation of aggFunc.
NormalizeAggFunc(aggFunc) == ToUpper(aggFunc)

\* BuildAggregation's clause with the LIKE test of BuildSelect.
MutAggConditionLike(driver, key, value, position) ==
    IF IsLikePattern(value)
    THEN quoteIdentifier(driver, key) \o <<32, 76, 73, 75, 69, 32>>
             \o placeholder(driver, position)
    ELSE quoteIdentifier(driver, key) \o <<32, 61, 32>>
             \o placeholder(driver, position)

\* The clause BuildAggregation's loop appends: always an equality.
AggCondition(driver, key, value, position) ==
    quoteIdentifier(driver, key) \o <<32, 61, 32>> \o placeholder(driver, position)

\* BuildAggregation's loop over the condition map, visited in `order`.
RECURSIVE AggWhereLoop(_, _, _, _, _, _)
AggWhereLoop(driver, conditions, order, i, whereClauses, params) ==
    IF i > Len(order) THEN [clauses |-> whereClauses, params |-> params]
    ELSE LET key == order[i]
             value == conditions[key]
         IN  AggWhereLoop(driver, conditions, order, i + 1,
                 Append(whereClauses,
                        AggCondition(driver, key, value, Len(params) + 1)),
                 Append(params, value))

\* BuildAggregation with groupBy used whenever it is not empty, unvalidated.
MutBuildAggregationGroupByUnchecked(driver, table, column, aggFunc, conditions, order, groupBy) ==
    LET agg == NormalizeAggFunc(aggFunc)
        grouped == groupBy # <<>>
        aggClause == agg \o <<40>> \o quoteIdentifier(driver, column)
                         \o <<41, 32, 97, 115, 32, 114, 101, 115, 117, 108, 116>>
        selectClause == IF grouped
                        THEN quoteIdentifier(driver, groupBy) \o <<44, 32>> \o aggClause
                        ELSE aggClause
        query == <<83, 69, 76, 69, 67, 84, 32>> \o selectClause
                     \o <<32, 70, 82, 79, 77, 32>> \o quoteIdentifier(driver, table)
        w == AggWhereLoop(driver, conditions, order, 1, <<>>, <<>>)
        where == IF Cardinality(DOMAIN conditions) > 0
                 THEN <<32, 87, 72, 69, 82, 69, 32>>
                          \o Join(w.clauses, <<32, 65, 78, 68, 32>>)
                 ELSE <<>>
        group == IF grouped
                 THEN <<32, 71, 82, 79, 85, 80, 32, 66, 89, 32>>
                          \o quoteIdentifier(driver, groupBy)
                 ELSE <<>>
    IN  IF agg \notin validAggFuncs
        THEN Result(<<>>, <<>>, "invalid aggregate function", <<>>, <<>>)
        ELSE Result(query \o where \o group, w.params, "nil", w.clauses, order)

\* QueryBuilder.BuildAggregation
BuildAggregation(driver, table, column, aggFunc, conditions, order, groupBy) ==
    LET agg == NormalizeAggFunc(aggFunc)
        grouped == groupBy # <<>> /\ isValidIdentifier(groupBy)
        aggClause == agg \o <<40>> \o quoteIdentifier(driver, column)
                         \o <<41, 32, 97, 115, 32, 114, 101, 115, 117, 108, 116>>
        selectClause == IF grouped
                        THEN quoteIdentifier(driver, groupBy) \o <<44, 32>> \o aggClause
                        ELSE aggClause
        query == <<83, 69, 76, 69, 67, 84, 32>> \o selectClause
                     \o <<32, 70, 82, 79, 77, 32>> \o quoteIdentifier(driver, table)
        w == AggWhereLoop(driver, conditions, order, 1, <<>>, <<>>)
        where == IF Cardinality(DOMAIN conditions) > 0
                 THEN <<32, 87, 72, 69, 82, 69, 32>>
                          \o Join(w.clauses, <<32, 65, 78, 68, 32>>)
                 ELSE <<>>
        group == IF grouped
                 THEN <<32, 71, 82, 79, 85, 80, 32, 66, 89, 32>>
                          \o quoteIdentifier(driver, groupBy)
                 ELSE <<>>
    IN  IF agg \notin validAggFuncs
        THEN Result(<<>>, <<>>, "invalid aggregate function", <<>>, <<>>)
        ELSE Result(query \o where \o group, w.params, "nil", w.clauses, order)

---------------------------------------------------------------------------
(* The schema and table lookups. The repository holds two texts of      *)
(* BuildTableList and BuildTableSchema: db/query_builder.go formats the *)
(* names into the text, unnamed/part_010 validates and binds them. Both *)
(* are modelled; the second carries the suffix _part_010.               *)

\* "SELECT table_name FROM information_schema.tables WHERE table_schema = "
TableListSelect ==
    <<83, 69, 76, 69, 67, 84, 32, 116, 97, 98, 108, 101, 95, 110, 97, 109,
      101, 32, 70, 82, 79, 77, 32, 105, 110, 102, 111, 114, 109, 97, 116,
      105, 111, 110, 95, 115, 99, 104, 101, 109, 97, 46, 116, 97, 98, 108,
      101, 115, 32, 87, 72, 69, 82, 69, 32, 116, 97, 98, 108, 101, 95, 115,
      99, 104, 101, 109, 97, 32, 61, 32>>

\* " AND table_type = 'BASE TABLE' ORDER BY table_name"
TableListRest ==
    <<32, 65, 78, 68, 32, 116, 97, 98, 108, 101, 95, 116, 121, 112, 101, 32,
      61, 32, 39, 66, 65, 83, 69, 32, 84, 65, 66, 76, 69, 39, 32, 79, 82,
      68, 69, 82, 32, 66, 89, 32, 116, 97, 98, 108, 101, 95, 110, 97, 109,
      101>>

\* The Postgres column query up to the first "WHERE table_name = ".
PgColumnsSelect ==
    <<10, 9, 9, 9, 83, 69, 76, 69, 67, 84, 10, 9, 9, 9, 9, 99, 111, 108,
      117, 109, 110, 95, 110, 97, 109, 101, 44, 10, 9, 9, 9, 9, 100, 97,
      116, 97, 95, 116, 121, 112, 101, 44, 10, 9, 9, 9, 9, 105, 115, 95,
      110, 117, 108, 108, 97, 98, 108, 101, 44, 10, 9, 9, 9, 9, 99, 111,
      108, 117, 109, 110, 95, 100, 101, 102, 97, 117, 108, 116, 44, 10, 9,
      9, 9, 9, 67, 65, 83, 69, 32, 87, 72, 69, 78, 32, 99, 111, 108, 117,
      109, 110, 95, 110, 97, 109, 101, 32, 73, 78, 32, 40, 10, 9, 9, 9, 9,
      9, 83, 69, 76, 69, 67, 84, 32, 99, 111, 108, 117, 109, 110, 95, 110,
      97, 109, 101, 32, 70, 82, 79, 77, 32, 105, 110, 102, 111, 114, 109,
      97, 116, 105, 111, 110, 95, 115, 99, 104, 101, 109, 97, 46, 107, 101,
      121, 95, 99, 111, 108, 117, 109, 110, 95, 117, 115, 97, 103, 101, 10,
      9, 9, 9, 9, 9, 87, 72, 69, 82, 69, 32, 116, 97, 98, 108, 101, 95, 110,
      97, 109, 101, 32, 61, 32>>

\* " AND constraint_name LIKE '%pkey' ... FROM information_schema.columns
\* WHERE table_name = "
PgColumnsFrom ==
    <<32, 65, 78, 68, 32, 99, 111, 110, 115, 116, 114, 97, 105, 110, 116,
      95, 110, 97, 109, 101, 32, 76, 73, 75, 69, 32, 39, 37, 112, 107, 101,
      121, 39, 10, 9, 9, 9, 9, 41, 32, 84, 72, 69, 78, 32, 116, 114, 117,
      101, 32, 69, 76, 83, 69, 32, 102, 97, 108, 115, 101, 32, 69, 78, 68,
      32, 97, 115, 32, 105, 115, 95, 112, 114, 105, 109, 97, 114, 121, 95,
      107, 101, 121, 10, 9, 9, 9, 70, 82, 79, 77, 32, 105, 110, 102, 111,
      114, 109, 97, 116, 105, 111, 110, 95, 115, 99, 104, 101, 109, 97, 46,
      99, 111, 108, 117, 109, 110, 115, 10, 9, 9, 9, 87, 72, 69, 82, 69, 32,
      116, 97, 98, 108, 101, 95, 110, 97, 109, 101, 32, 61, 32>>

\* " AND table_schema = "
AndTableSchema == <<32, 65, 78, 68, 32, 116, 97, 98, 108, 101, 95, 115, 99, 104, 101, 109, 97, 32, 61, 32>>

\* The MySQL column query up to "WHERE table_name = ", indented by two tabs.
MyColumnsSelect ==
    <<10, 9, 9, 83, 69, 76, 69, 67, 84, 10, 9, 9, 9, 99, 111, 108, 117, 109,
      110, 95, 110, 97, 109, 101, 44, 10, 9, 9, 9, 100, 97, 116, 97, 95,
      116, 121, 112, 101, 44, 10, 9, 9, 9, 105, 115, 95, 110, 117, 108, 108,
      97, 98, 108, 101, 44, 10, 9, 9, 9, 99, 111, 108, 117, 109, 110, 95,
      100, 101, 102, 97, 117, 108, 116, 44, 10, 9, 9, 9, 99, 111, 108, 117,
      109, 110, 95, 107, 101, 121, 32, 61, 32, 39, 80, 82, 73, 39, 32, 97,
      115, 32, 105, 115, 95, 112, 114, 105, 109, 97, 114, 121, 95, 107, 101,
      121, 10, 9, 9, 70, 82, 79, 77, 32, 105, 110, 102, 111, 114, 109, 97,
      116, 105, 111, 110, 95, 115, 99, 104, 101, 109, 97, 46, 99, 111, 108,
      117, 109, 110, 115, 10, 9, 9, 87, 72, 69, 82, 69, 32, 116, 97, 98,
      108, 101, 95, 110, 97, 109, 101, 32, 61, 32>>

\* The same, indented by three tabs (part_010, explicit schema).
MyColumnsSelectSchema ==
    <<10, 9, 9, 9, 83, 69, 76, 69, 67, 84, 10, 9, 9, 9, 9, 99, 111, 108,
      117, 109, 110, 95, 110, 97, 109, 101, 44, 10, 9, 9, 9, 9, 100, 97,
      116, 97, 95, 116, 121, 112, 101, 44, 10, 9, 9, 9, 9, 105, 115, 95,
      110, 117, 108, 108, 97, 98, 108, 101, 44, 10, 9, 9, 9, 9, 99, 111,
      108, 117, 109, 110, 95, 100, 101, 102, 97, 117, 108, 116, 44, 10, 9,
      9, 9, 9, 99, 111, 108, 117, 109, 110, 95, 107, 101, 121, 32, 61, 32,
      39, 80, 82, 73, 39, 32, 97, 115, 32, 105, 115, 95, 112, 114, 105, 109,
      97, 114, 121, 95, 107, 101, 121, 10, 9, 9, 9, 70, 82, 79, 77, 32, 105,
      110, 102, 111, 114, 109, 97, 116, 105, 111, 110, 95, 115, 99, 104,
      101, 109, 97, 46, 99, 111, 108, 117, 109, 110, 115, 10, 9, 9, 9, 87,
      72, 69, 82, 69, 32, 116, 97, 98, 108, 101, 95, 110, 97, 109, 101, 32,
      61, 32>>

\* "<newline><tabs>ORDER BY ordinal_position", two tabs and three.
OrderByOrdinal == <<10, 9, 9, 79, 82, 68, 69, 82, 32, 66, 89, 32, 111, 114, 100, 105, 110, 97, 108, 95, 112, 111, 115, 105, 116, 105, 111, 110>>
OrderByOrdinalSchema == <<10, 9, 9, 9, 79, 82, 68, 69, 82, 32, 66, 89, 32, 111, 114, 100, 105, 110, 97, 108, 95, 112, 111, 115, 105, 116, 105, 111, 110>>

\* "public", "DATABASE()" and a name between single quotes ('%s').
Public == <<112, 117, 98, 108, 105, 99>>
DatabaseCall == <<68, 65, 84, 65, 66, 65, 83, 69, 40, 41>>
SingleQuoted(name) == <<39>> \o name \o <<39>>

\* QueryBuilder.BuildTableList of db/query_builder.go: returns the text only.
BuildTableList(driver, schema) ==
    IF driver = "postgres"
    THEN (IF schema # <<>>
          THEN Result(TableListSelect \o SingleQuoted(schema) \o TableListRest,
                      <<>>, "nil", <<>>, <<>>)
          ELSE Result(TableListSelect \o SingleQuoted(Public) \o TableListRest,
                      <<>>, "nil", <<>>, <<>>))
    ELSE (IF schema # <<>>
          THEN Result(TableListSelect \o SingleQuoted(schema) \o TableListRest,
                      <<>>, "nil", <<>>, <<>>)
          ELSE Result(TableListSelect \o DatabaseCall \o TableListRest,
                      <<>>, "nil", <<>>, <<>>))

\* QueryBuilder.BuildTableSchema of db/query_builder.go: returns the text only.
BuildTableSchema(driver, table, schema) ==
    IF driver = "postgres"
    THEN LET schemaFilter == IF schema # <<>> THEN schema ELSE Public
         IN  Result(PgColumnsSelect \o SingleQuoted(table) \o PgColumnsFrom
                        \o SingleQuoted(table) \o AndTableSchema
                        \o SingleQuoted(schemaFilter) \o OrderByOrdinalSchema,
                    <<>>, "nil", <<>>, <<>>)
    ELSE LET schemaFilter == IF schema # <<>> THEN SingleQuoted(schema)
                             ELSE DatabaseCall
         IN  Result(MyColumnsSelect \o SingleQuoted(table) \o AndTableSchema
                        \o schemaFilter \o OrderByOrdinal,
                    <<>>, "nil", <<>>, <<>>)

\* QueryBuilder.BuildTableList of unnamed/part_010: text and parameters.
BuildTableList_part_010(driver, schema) ==
    IF driver = "postgres"
    THEN (IF schema # <<>>
          THEN (IF ~isValidIdentifier(schema)
                THEN Result(TableListSelect \o <<36, 49>> \o TableListRest,
                            <<StrVal(Public)>>, "nil", <<>>, <<>>)
                ELSE Result(TableListSelect \o <<36, 49>> \o TableListRest,
                            <<StrVal(schema)>>, "nil", <<>>, <<>>))
          ELSE Result(TableListSelect \o <<36, 49>> \o TableListRest,
                      <<StrVal(Public)>>, "nil", <<>>, <<>>))
    ELSE (IF schema # <<>>
          THEN (IF ~isValidIdentifier(schema)
                THEN Result(TableListSelect \o DatabaseCall \o TableListRest,
                            <<>>, "nil", <<>>, <<>>)
                ELSE Result(TableListSelect \o <<63>> \o TableListRest,
                            <<StrVal(schema)>>, "nil", <<>>, <<>>))
          ELSE Result(TableListSelect \o DatabaseCall \o TableListRest,
                      <<>>, "nil", <<>>, <<>>))

\* QueryBuilder.BuildTableSchema of unnamed/part_010: text, parameters, error.
BuildTableSchema_part_010(driver, table, schema) ==
    IF ~isValidIdentifier(table)
    THEN Result(<<>>, <<>>, "invalid table name", <<>>, <<>>)
    ELSE IF driver = "postgres"
    THEN (IF schema # <<>> /\ ~isValidIdentifier(schema)
          THEN Result(<<>>, <<>>, "invalid schema name", <<>>, <<>>)
          ELSE LET schemaFilter == IF schema # <<>> THEN schema ELSE Public
               IN  Result(PgColumnsSelect \o <<36, 49>> \o PgColumnsFrom
                              \o <<36, 50>> \o AndTableSchema \o <<36, 51>>
                              \o OrderByOrdinalSchema,
                          <<StrVal(table), StrVal(table), StrVal(schemaFilter)>>,
                          "nil", <<>>, <<>>))
    ELSE IF schema # <<>>
    THEN (IF ~isValidIdentifier(schema)
          THEN Result(<<>>, <<>>, "invalid schema name", <<>>, <<>>)
          ELSE Result(MyColumnsSelectSchema \o <<63>> \o AndTableSchema \o <<63>>
                          \o OrderByOrdinalSchema,
                      <<StrVal(table), StrVal(schema)>>, "nil", <<>>, <<>>))
    ELSE Result(MyColumnsSelect \o <<63>> \o AndTableSchema \o DatabaseCall
                    \o OrderByOrdinal,
                <<StrVal(table)>>, "nil", <<>>, <<>>)

---------------------------------------------------------------------------
(* The inputs the calls are drawn from. *)

\* Every concatenation of at most n of the given atoms.
RECURSIVE AtomStrings(_, _)
AtomStrings(atoms, n) ==
    IF n = 0 THEN {<<>>}
    ELSE LET shorter == AtomStrings(atoms, n - 1)
         IN  shorter \cup {s \o a : s \in shorter, a \in atoms}

\* Every string of at most n runes of the given alphabet.
RECURSIVE RuneStrings(_, _)
RuneStrings(alphabet, n) ==
    IF n = 0 THEN {<<>>}
    ELSE LET shorter == RuneStrings(alphabet, n - 1)
         IN  shorter \cup {Append(s, c) : s \in shorter, c \in alphabet}

\* "mysql", "postgres" and a driver name the builder does not know.
Drivers == {"mysql", "postgres", "sqlite"}

\* Table names: t, the empty name, and t`x (a backtick inside the name).
Tables == { <<116>>, <<>>, <<116, 96, 120>> }

\* Condition keys: k, j and k;x-like k; (not an identifier).
Keys == { <<107>>, <<106>>, <<107, 59>> }

\* Condition values: the strings v; and %v, the int 7, the bool true.
Values == { StrVal(<<118, 59>>), StrVal(<<37, 118>>), IntVal(7), BoolVal(TRUE) }

\* Every condition map of at most MaxConds entries.
CondMaps ==
    UNION { [ks -> Values] : ks \in {x \in SUBSET Keys : Cardinality(x) <= MaxConds} }

\* The condition maps of the calls that vary something else.
FewCondMaps ==
    { [ks \in {} |-> IntVal(0)], [ks \in {<<107>>} |-> StrVal(<<118, 59>>)] }

\* The condition maps over the keys k and j whose values are the strings
\* v_, %v and v; (with and without the runes of a LIKE pattern).
PatternCondMaps ==
    UNION { [ks -> {StrVal(<<118, 95>>), StrVal(<<37, 118>>), StrVal(<<118, 59>>)}] :
              ks \in {{<<107>>}, {<<106>>}, {<<107>>, <<106>>}} }

\* The orders in which range may visit a map: every enumeration of its keys.
Orders(conditions) ==
    LET n == Cardinality(DOMAIN conditions)
    IN  { o \in [1..n -> DOMAIN conditions] :
            \A i, j \in 1..n : i # j => o[i] # o[j] }

Limits == {-1, 0, 1, MaxLimit}
Offsets == -1..MaxOffset

\* The atoms of ORDER BY strings: a, " DESC", "<TAB>asc", ",", " ", ";"
\* and U+0131 (dotless i).
OrderByAtoms ==
    { <<97>>, <<32, 68, 69, 83, 67>>, <<9, 97, 115, 99>>, <<44>>, <<32>>, <<59>>,
      <<305>> }

OrderByStrings == AtomStrings(OrderByAtoms, MaxOrderByAtoms)
SelectOrderByStrings == AtomStrings(OrderByAtoms, MaxSelectOrderByAtoms)

\* The ORDER BY strings of the calls that vary the condition map:
\* none, "a DESC" and "a;".
FewOrderByStrings == { <<>>, <<97, 32, 68, 69, 83, 67>>, <<97, 59>> }

\* The runes of identifiers: the ends of the ranges isValidIdentifier
\* compares with and their neighbours, _ and ., and runes of SQL syntax.
IdentAlphabet ==
    { 96, 97, 122, 123, 64, 65, 90, 91, 47, 48, 57, 58, 95, 46,
      32, 59, 39, 34, 305 }

IdentStrings == RuneStrings(IdentAlphabet, MaxIdentLen)

\* The atoms of aggregate function names: sum, AVG, Count, min, MAX,
\* <U+017F>um, x and a space.
AggAtoms ==
    { <<115, 117, 109>>, <<65, 86, 71>>, <<67, 111, 117, 110, 116>>,
      <<109, 105, 110>>, <<77, 65, 88>>, <<383, 117, 109>>, <<120>>, <<32>> }

AggFuncs == AtomStrings(AggAtoms, MaxAggAtoms)

\* Aggregate columns and GROUP BY columns: c, c; and none, g, g;.
Columns == { <<99>>, <<99, 59>> }
GroupBys == { <<>>, <<103>>, <<103, 59>> }

\* A call: the operation and its arguments (those it does not take are zero).
Call(op, table, conditions, limit, offset, orderBy, column, aggFunc, groupBy, s) ==
    [op |-> op, table |-> table, conditions |-> conditions, limit |-> limit,
     offset |-> offset, orderBy |-> orderBy, column |-> column,
     aggFunc |-> aggFunc, groupBy |-> groupBy, s |-> s]

SelectCalls ==
    { Call("BuildSelect", t, c, lo[1], lo[2], ob, <<>>, <<>>, <<>>, <<>>) :
        t \in Tables, c \in CondMaps, ob \in FewOrderByStrings,
        lo \in Limits \X Offsets }
    \cup
    { Call("BuildSelect", <<116>>, c, l, o, ob, <<>>, <<>>, <<>>, <<>>) :
        c \in FewCondMaps, l \in Limits, o \in Offsets, ob \in SelectOrderByStrings }
    \cup
    { Call("BuildSelect", <<116>>, c, 0, 0, <<>>, <<>>, <<>>, <<>>, <<>>) :
        c \in PatternCondMaps }

CountCalls ==
    { Call("BuildCount", t, c, 0, 0, <<>>, <<>>, <<>>, <<>>, <<>>) :
        t \in Tables, c \in CondMaps }
    \cup
    { Call("BuildCount", <<116>>, c, 0, 0, <<>>, <<>>, <<>>, <<>>, <<>>) :
        c \in PatternCondMaps }

AggCalls ==
    { Call("BuildAggregation", t, c, 0, 0, <<>>, <<99>>, <<115, 117, 109>>, g, <<>>) :
        t \in Tables, c \in CondMaps, g \in {<<>>, <<103>>} }
    \cup
    { Call("BuildAggregation", <<116>>, c, 0, 0, <<>>, col, f, g, <<>>) :
        c \in FewCondMaps, col \in Columns, f \in AggFuncs, g \in GroupBys }
    \cup
    { Call("BuildAggregation", <<116>>, c, 0, 0, <<>>, <<99>>, <<115, 117, 109>>,
           <<>>, <<>>) :
        c \in PatternCondMaps }

IdentCalls ==
    { Call("isValidIdentifier", <<>>, [ks \in {} |-> IntVal(0)], 0, 0, <<>>,
           <<>>, <<>>, <<>>, s) : s \in IdentStrings }

\* The names handed to quoteIdentifier: made of the two quote runes, a
\* letter and an underscore, so that names already quoted in either style,
\* half quoted and with quotes inside all occur.
QuoteAlphabet == { 96, 34, 97, 95 }
QuoteStrings == RuneStrings(QuoteAlphabet, MaxQuoteLen)
QuoteCalls ==
    { Call("quoteIdentifier", <<>>, [ks \in {} |-> IntVal(0)], 0, 0, <<>>,
           <<>>, <<>>, <<>>, s) : s \in QuoteStrings }

OrderByCalls ==
    { Call("isValidOrderBy", <<>>, [ks \in {} |-> IntVal(0)], 0, 0, <<>>,
           <<>>, <<>>, <<>>, s) : s \in OrderByStrings }

\* Schema names: none, s, and s' and s;x (not identifiers).
Schemas == { <<>>, <<115>>, <<115, 39>>, <<115, 59, 120>> }

\* Table names of the lookups: t, the empty name, t' and t`x.
LookupTables == { <<116>>, <<>>, <<116, 39>>, <<116, 96, 120>> }

TableListCalls ==
    { Call(op, <<>>, [ks \in {} |-> IntVal(0)], 0, 0, <<>>, <<>>, <<>>, <<>>, s) :
        op \in {"BuildTableList", "BuildTableList_part_010"}, s \in Schemas }

TableSchemaCalls ==
    { Call(op, t, [ks \in {} |-> IntVal(0)], 0, 0, <<>>, <<>>, <<>>, <<>>, s) :
        op \in {"BuildTableSchema", "BuildTableSchema_part_010"},
        t \in LookupTables, s \in Schemas }

Calls ==
    SelectCalls \cup CountCalls \cup AggCalls \cup IdentCalls \cup OrderByCalls
        \cup TableListCalls \cup TableSchemaCalls \cup QuoteCalls

---------------------------------------------------------------------------
(* The state machine: a builder is constructed for a driver, a call is    *)
(* chosen, and the call is made (in SpecTwice: up to MaxCalls times, with *)
(* the same arguments).                                                    *)

\* context.Background(): no deadline.
Background == [deadline |-> FALSE, timeout |-> 0]

\* An argument of a tool request: present with a value, or absent.
StrArg(v) == [present |-> TRUE, v |-> v]
NoStr == [present |-> FALSE, v |-> <<>>]
IntArg(n) == [present |-> TRUE, v |-> n]
NoInt == [present |-> FALSE, v |-> 0]
BoolArg(b) == [present |-> TRUE, v |-> b]
NoBool == [present |-> FALSE, v |-> FALSE]

\* The conditions argument: absent (or ""), a text that is not JSON, or
\* the JSON text of an object.
NoConditions == [json |-> "absent", map |-> [ks \in {} |-> IntVal(0)]]
BadConditions == [json |-> "invalid", map |-> [ks \in {} |-> IntVal(0)]]
Conditions(m) == [json |-> "object", map |-> m]

\* The arguments of a request.
Args(database, table, conditions, limit, offset, order_by, dry_run, column, function, group_by) ==
    [database |-> database, table |-> table, conditions |-> conditions,
     limit |-> limit, offset |-> offset, order_by |-> order_by,
     dry_run |-> dry_run, column |-> column, function |-> function,
     group_by |-> group_by]

NoArgs ==
    Args(NoStr, NoStr, NoConditions, NoInt, NoInt, NoStr, NoBool, NoStr, NoStr,
         NoStr)

\* No server is constructed, no request is made, no result is returned.
NoServer ==
    [repositories |-> [n \in {} |-> [type |-> "", driver |-> ""]],
     config |-> [DefaultDryRun |-> FALSE, MaxRows |-> 0, QueryTimeout |-> 0,
                 PreviewLimit |-> 0, SampleSize |-> 0, ExecutionTimeout |-> 0]]
NoRequest == [tool |-> "", ctx |-> Background, args |-> NoArgs]
NoResponse ==
    [isError |-> FALSE, kind |-> "none", dry_run |-> FALSE, query |-> <<>>,
     params |-> <<>>, err |-> "nil"]

\* NewQueryBuilder(driver), and the call about to be made.
Init ==
    /\ qb \in { [driver |-> d] : d \in Drivers }
    /\ call \in Calls
    /\ ncalls = 0
    /\ out = NoResult
    /\ prev = NoResult
    /\ srv = NoServer
    /\ request = NoRequest
    /\ sent = <<>>
    /\ response = NoResponse
    /\ gos = Idle /\ mem = Idle /\ scan = Idle /\ intro = Idle /\ mgr = Idle

Returns(result) ==
    /\ out' = result
    /\ prev' = out
    /\ ncalls' = ncalls + 1
    /\ UNCHANGED <<qb, call, srv, request, sent, response>>
    /\ UNCHANGED <<gos, mem, scan, intro, mgr>>

DoBuildSelect(max) ==
    /\ call.op = "BuildSelect"
    /\ ncalls < max
    /\ \E order \in Orders(call.conditions) :
         Returns(BuildSelect(qb.driver, call.table, call.conditions, order,
                             call.limit, call.offset, call.orderBy))

DoBuildCount(max) ==
    /\ call.op = "BuildCount"
    /\ ncalls < max
    /\ \E order \in Orders(call.conditions) :
         Returns(BuildCount(qb.driver, call.table, call.conditions, order))

DoBuildAggregation(max) ==
    /\ call.op = "BuildAggregation"
    /\ ncalls < max
    /\ \E order \in Orders(call.conditions) :
         Returns(BuildAggregation(qb.driver, call.table, call.column, call.aggFunc,
                                  call.conditions, order, call.groupBy))

DoIsValidIdentifier(max) ==
    /\ call.op = "isValidIdentifier"
    /\ ncalls < max
    /\ Returns(BoolResult(isValidIdentifier(call.s)))

DoIsValidOrderBy(max) ==
    /\ call.op = "isValidOrderBy"
    /\ ncalls < max
    /\ Returns(BoolResult(isValidOrderBy(call.s)))

DoQuoteIdentifier(max) ==
    /\ call.op = "quoteIdentifier"
    /\ ncalls < max
    /\ Returns(Result(quoteIdentifier(qb.driver, call.s), <<>>, "nil", <<>>, <<>>))

DoBuildTableList(max) ==
    /\ call.op = "BuildTableList"
    /\ ncalls < max
    /\ Returns(BuildTableList(qb.driver, call.s))

DoBuildTableSchema(max) ==
    /\ call.op = "BuildTableSchema"
    /\ ncalls < max
    /\ Returns(BuildTableSchema(qb.driver, call.table, call.s))

DoBuildTableList_part_010(max) ==
    /\ call.op = "BuildTableList_part_010"
    /\ ncalls < max
    /\ Returns(BuildTableList_part_010(qb.driver, call.s))

DoBuildTableSchema_part_010(max) ==
    /\ call.op = "BuildTableSchema_part_010"
    /\ ncalls < max
    /\ Returns(BuildTableSchema_part_010(qb.driver, call.table, call.s))

Next ==
    \/ DoBuildSelect(1)
    \/ DoBuildCount(1)
    \/ DoBuildAggregation(1)
    \/ DoIsValidIdentifier(1)
    \/ DoIsValidOrderBy(1)
    \/ DoBuildTableList(1)
    \/ DoBuildTableSchema(1)
    \/ DoBuildTableList_part_010(1)
    \/ DoBuildTableSchema_part_010(1)
    \/ DoQuoteIdentifier(1)

Spec == Init /\ [][Next]_vars

NextTwice ==
    \/ DoBuildSelect(MaxCalls)
    \/ DoBuildCount(MaxCalls)
    \/ DoBuildAggregation(MaxCalls)
    \/ DoIsValidIdentifier(MaxCalls)
    \/ DoIsValidOrderBy(MaxCalls)
    \/ DoBuildTableList(MaxCalls)
    \/ DoBuildTableSchema(MaxCalls)
    \/ DoBuildTableList_part_010(MaxCalls)
    \/ DoBuildTableSchema_part_010(MaxCalls)
    \/ DoQuoteIdentifier(MaxCalls)

SpecTwice == Init /\ [][NextTwice]_vars

---------------------------------------------------------------------------
(* The repositories and the tool handlers.  A repository method sends    *)
(* queries to its database; `sent` records every query sent, with its    *)
(* parameters and the context it was sent under.  Whether the database   *)
(* answers a query or fails it is not in the program's hands: in each    *)
(* operation `fails` holds the positions, in the order of sending, of    *)
(* the queries that fail.                                                 *)

\* context.WithTimeout(ctx, seconds): the earlier of the two deadlines.
WithTimeout(ctx, seconds) ==
    [deadline |-> TRUE,
     timeout |-> IF ctx.deadline /\ ctx.timeout < seconds
                 THEN ctx.timeout ELSE seconds]

\* A query handed to database/sql under a context.
Query(ctx, text, params) == [ctx |-> ctx, text |-> text, params |-> params]

\* What a repository method did: the queries it sent and the error returned.
Done(queries, err) == [sent |-> queries, err |-> err]

\* "SELECT COUNT(*) FROM `"
MyCountSelect == <<83, 69, 76, 69, 67, 84, 32, 67, 79, 85, 78, 84, 40, 42, 41, 32, 70, 82, 79, 77, 32, 96>>

\* "SELECT reltuples::bigint FROM pg_class WHERE relname = $1"
PgCountQuery ==
    <<83, 69, 76, 69, 67, 84, 32, 114, 101, 108, 116, 117, 112, 108, 101,
      115, 58, 58, 98, 105, 103, 105, 110, 116, 32, 70, 82, 79, 77, 32, 112,
      103, 95, 99, 108, 97, 115, 115, 32, 87, 72, 69, 82, 69, 32, 114, 101,
      108, 110, 97, 109, 101, 32, 61, 32, 36, 49>>

\* The query of MySQLRepository.GetForeignKeys: ... AND table_name = ? ...
MyForeignKeysQuery ==
    <<10, 9, 9, 83, 69, 76, 69, 67, 84, 10, 9, 9, 9, 99, 111, 110, 115, 116,
      114, 97, 105, 110, 116, 95, 110, 97, 109, 101, 44, 10, 9, 9, 9, 116,
      97, 98, 108, 101, 95, 110, 97, 109, 101, 44, 10, 9, 9, 9, 99, 111,
      108, 117, 109, 110, 95, 110, 97, 109, 101, 44, 10, 9, 9, 9, 114, 101,
      102, 101, 114, 101, 110, 99, 101, 100, 95, 116, 97, 98, 108, 101, 95,
      110, 97, 109, 101, 44, 10, 9, 9, 9, 114, 101, 102, 101, 114, 101, 110,
      99, 101, 100, 95, 99, 111, 108, 117, 109, 110, 95, 110, 97, 109, 101,
      10, 9, 9, 70, 82, 79, 77, 32, 105, 110, 102, 111, 114, 109, 97, 116,
      105, 111, 110, 95, 115, 99, 104, 101, 109, 97, 46, 107, 101, 121, 95,
      99, 111, 108, 117, 109, 110, 95, 117, 115, 97, 103, 101, 10, 9, 9, 87,
      72, 69, 82, 69, 32, 116, 97, 98, 108, 101, 95, 115, 99, 104, 101, 109,
      97, 32, 61, 32, 68, 65, 84, 65, 66, 65, 83, 69, 40, 41, 10, 9, 9, 9,
      65, 78, 68, 32, 116, 97, 98, 108, 101, 95, 110, 97, 109, 101, 32, 61,
      32, 63, 10, 9, 9, 9, 65, 78, 68, 32, 114, 101, 102, 101, 114, 101,
      110, 99, 101, 100, 95, 116, 97, 98, 108, 101, 95, 110, 97, 109, 101,
      32, 73, 83, 32, 78, 79, 84, 32, 78, 85, 76, 76, 10, 9, 9, 79, 82, 68,
      69, 82, 32, 66, 89, 32, 99, 111, 110, 115, 116, 114, 97, 105, 110,
      116, 95, 110, 97, 109, 101, 44, 32, 111, 114, 100, 105, 110, 97, 108,
      95, 112, 111, 115, 105, 116, 105, 111, 110>>

\* The query of PostgresRepository.GetForeignKeys: ... AND tc.table_name = $1 ...
PgForeignKeysQuery ==
    <<10, 9, 9, 83, 69, 76, 69, 67, 84, 10, 9, 9, 9, 116, 99, 46, 99, 111,
      110, 115, 116, 114, 97, 105, 110, 116, 95, 110, 97, 109, 101, 44, 10,
      9, 9, 9, 116, 99, 46, 116, 97, 98, 108, 101, 95, 110, 97, 109, 101,
      44, 10, 9, 9, 9, 107, 99, 117, 46, 99, 111, 108, 117, 109, 110, 95,
      110, 97, 109, 101, 44, 10, 9, 9, 9, 99, 99, 117, 46, 116, 97, 98, 108,
      101, 95, 110, 97, 109, 101, 32, 65, 83, 32, 102, 111, 114, 101, 105,
      103, 110, 95, 116, 97, 98, 108, 101, 95, 110, 97, 109, 101, 44, 10, 9,
      9, 9, 99, 99, 117, 46, 99, 111, 108, 117, 109, 110, 95, 110, 97, 109,
      101, 32, 65, 83, 32, 102, 111, 114, 101, 105, 103, 110, 95, 99, 111,
      108, 117, 109, 110, 95, 110, 97, 109, 101, 10, 9, 9, 70, 82, 79, 77,
      32, 105, 110, 102, 111, 114, 109, 97, 116, 105, 111, 110, 95, 115, 99,
      104, 101, 109, 97, 46, 116, 97, 98, 108, 101, 95, 99, 111, 110, 115,
      116, 114, 97, 105, 110, 116, 115, 32, 65, 83, 32, 116, 99, 10, 9, 9,
      74, 79, 73, 78, 32, 105, 110, 102, 111, 114, 109, 97, 116, 105, 111,
      110, 95, 115, 99, 104, 101, 109, 97, 46, 107, 101, 121, 95, 99, 111,
      108, 117, 109, 110, 95, 117, 115, 97, 103, 101, 32, 65, 83, 32, 107,
      99, 117, 10, 9, 9, 9, 79, 78, 32, 116, 99, 46, 99, 111, 110, 115, 116,
      114, 97, 105, 110, 116, 95, 110, 97, 109, 101, 32, 61, 32, 107, 99,
      117, 46, 99, 111, 110, 115, 116, 114, 97, 105, 110, 116, 95, 110, 97,
      109, 101, 10, 9, 9, 9, 65, 78, 68, 32, 116, 99, 46, 116, 97, 98, 108,
      101, 95, 115, 99, 104, 101, 109, 97, 32, 61, 32, 107, 99, 117, 46,
      116, 97, 98, 108, 101, 95, 115, 99, 104, 101, 109, 97, 10, 9, 9, 74,
      79, 73, 78, 32, 105, 110, 102, 111, 114, 109, 97, 116, 105, 111, 110,
      95, 115, 99, 104, 101, 109, 97, 46, 99, 111, 110, 115, 116, 114, 97,
      105, 110, 116, 95, 99, 111, 108, 117, 109, 110, 95, 117, 115, 97, 103,
      101, 32, 65, 83, 32, 99, 99, 117, 10, 9, 9, 9, 79, 78, 32, 99, 99,
      117, 46, 99, 111, 110, 115, 116, 114, 97, 105, 110, 116, 95, 110, 97,
      109, 101, 32, 61, 32, 116, 99, 46, 99, 111, 110, 115, 116, 114, 97,
      105, 110, 116, 95, 110, 97, 109, 101, 10, 9, 9, 9, 65, 78, 68, 32, 99,
      99, 117, 46, 116, 97, 98, 108, 101, 95, 115, 99, 104, 101, 109, 97,
      32, 61, 32, 116, 99, 46, 116, 97, 98, 108, 101, 95, 115, 99, 104, 101,
      109, 97, 10, 9, 9, 87, 72, 69, 82, 69, 32, 116, 99, 46, 99, 111, 110,
      115, 116, 114, 97, 105, 110, 116, 95, 116, 121, 112, 101, 32, 61, 32,
      39, 70, 79, 82, 69, 73, 71, 78, 32, 75, 69, 89, 39, 10, 9, 9, 9, 65,
      78, 68, 32, 116, 99, 46, 116, 97, 98, 108, 101, 95, 110, 97, 109, 101,
      32, 61, 32, 36, 49, 10, 9, 9, 79, 82, 68, 69, 82, 32, 66, 89, 32, 116,
      99, 46, 99, 111, 110, 115, 116, 114, 97, 105, 110, 116, 95, 110, 97,
      109, 101>>

\* MySQLRepository.GetTableList
MySQLRepository_GetTableList(ctx, fails) ==
    LET query == BuildTableList("mysql", <<>>).text
    IN  Done(<<Query(ctx, query, <<>>)>>,
             IF 1 \in fails THEN "failed to query table list" ELSE "nil")

\* MySQLRepository.GetTableInfo: the column query, then the row count,
\* whose failure is ignored.
MySQLRepository_GetTableInfo(ctx, tableName, fails) ==
    LET query == BuildTableSchema("mysql", tableName, <<>>).text
        countQuery == MyCountSelect \o tableName \o <<96>>
    IN  IF 1 \in fails
        THEN Done(<<Query(ctx, query, <<>>)>>, "failed to query table schema")
        ELSE Done(<<Query(ctx, query, <<>>), Query(ctx, countQuery, <<>>)>>, "nil")

\* MySQLRepository.GetForeignKeys
MySQLRepository_GetForeignKeys(ctx, tableName, fails) ==
    Done(<<Query(ctx, MyForeignKeysQuery, <<StrVal(tableName)>>)>>,
         IF 1 \in fails THEN "failed to query foreign keys" ELSE "nil")

\* PostgresRepository.GetTableList
PostgresRepository_GetTableList(ctx, fails) ==
    LET built == BuildTableList_part_010("postgres", <<>>)
    IN  Done(<<Query(ctx, built.text, built.params)>>,
             IF 1 \in fails THEN "failed to query table list" ELSE "nil")

\* PostgresRepository.GetTableInfo
PostgresRepository_GetTableInfo(ctx, tableName, fails) ==
    LET built == BuildTableSchema_part_010("postgres", tableName, <<>>)
    IN  IF built.err # "nil"
        THEN Done(<<>>, "failed to build table schema query")
        ELSE IF 1 \in fails
        THEN Done(<<Query(ctx, built.text, built.params)>>,
                  "failed to query table schema")
        ELSE Done(<<Query(ctx, built.text, built.params),
                    Query(ctx, PgCountQuery, <<StrVal(tableName)>>)>>, "nil")

\* PostgresRepository.GetForeignKeys
PostgresRepository_GetForeignKeys(ctx, tableName, fails) ==
    Done(<<Query(ctx, PgForeignKeysQuery, <<StrVal(tableName)>>)>>,
         IF 1 \in fails THEN "failed to query foreign keys" ELSE "nil")

\* switch r := repo.(type): the method of the repository's type.
GetTableListOf(repo, ctx, fails) ==
    IF repo.type = "MySQLRepository"
    THEN MySQLRepository_GetTableList(ctx, fails)
    ELSE PostgresRepository_GetTableList(ctx, fails)

GetTableInfoOf(repo, ctx, tableName, fails) ==
    IF repo.type = "MySQLRepository"
    THEN MySQLRepository_GetTableInfo(ctx, tableName, fails)
    ELSE PostgresRepository_GetTableInfo(ctx, tableName, fails)

GetForeignKeysOf(repo, ctx, tableName, fails) ==
    IF repo.type = "MySQLRepository"
    THEN MySQLRepository_GetForeignKeys(ctx, tableName, fails)
    ELSE PostgresRepository_GetForeignKeys(ctx, tableName, fails)

\* request.GetString, GetInt and GetBool: the argument, or the default.
GetString(arg, default) == IF arg.present THEN arg.v ELSE default
GetInt(arg, default) == IF arg.present THEN arg.v ELSE default
GetBool(arg, default) == IF arg.present THEN arg.v ELSE default

\* The dry_run argument alone: the configured default is ignored.
MutDryRunArgumentOnly(args, config) == args.dry_run.present /\ args.dry_run.v

\* HandleDBQuery's dryRun: the dry_run argument, else DefaultDryRun.
DryRun(args, config) == GetBool(args.dry_run, config.DefaultDryRun)

\* A failure returned as the handler's second value with a nil result.
MutErrorResultAsFunctionError(kind) ==
    [isError |-> FALSE, kind |-> "nil", dry_run |-> FALSE, query |-> <<>>,
     params |-> <<>>, err |-> kind]

\* The limit argument passed on as it was given.
MutLimitUnclamped(args, config) == GetInt(args.limit, config.MaxRows)

\* HandleDBQuery's limit: the limit argument, else MaxRows, and MaxRows
\* again when it is not positive or exceeds MaxRows.
Limit(args, config) ==
    LET given == GetInt(args.limit, config.MaxRows)
    IN  IF given <= 0 \/ given > config.MaxRows THEN config.MaxRows ELSE given

\* HandleDBQuery's offset: the offset argument, else 0, and 0 when negative.
Offset(args) ==
    LET wanted == GetInt(args.offset, 0)
    IN  IF wanted < 0 THEN 0 ELSE wanted

\* mcp.NewToolResultError and mcp.NewToolResultText, as the handlers return
\* them: the result first, a nil error second.
ErrorResult(kind) ==
    [isError |-> TRUE, kind |-> kind, dry_run |-> FALSE, query |-> <<>>,
     params |-> <<>>, err |-> "nil"]
TextResult(kind, dry_run, query, params) ==
    [isError |-> FALSE, kind |-> kind, dry_run |-> dry_run, query |-> query,
     params |-> params, err |-> "nil"]

\* The two repositories and the maps of repositories a server may hold,
\* under the names m and p.
MySQLRepo == [type |-> "MySQLRepository", driver |-> "mysql"]
PostgresRepo == [type |-> "PostgresRepository", driver |-> "postgres"]
RepoMaps ==
    { [n \in {} |-> MySQLRepo],
      [n \in {<<109>>} |-> MySQLRepo],
      [n \in {<<112>>} |-> PostgresRepo],
      [n \in {<<109>>, <<112>>} |-> IF n = <<109>> THEN MySQLRepo ELSE PostgresRepo] }

\* The configurations: README's max_rows and query_timeout, dry-run by
\* default or not.
Configs ==
    { [DefaultDryRun |-> d, MaxRows |-> 1000, QueryTimeout |-> 30,
       PreviewLimit |-> 10, SampleSize |-> 5, ExecutionTimeout |-> 60] :
        d \in BOOLEAN }

\* The positions of the queries of one operation.
QueryPositions == 1..3

\* The arguments requests are drawn from: database names m, p and x (no
\* such database); the table names of the lookups; conditions.
ToolDatabases == { NoStr, StrArg(<<109>>), StrArg(<<112>>), StrArg(<<120>>) }
ToolTables == { NoStr } \cup { StrArg(t) : t \in LookupTables }
ToolConditions ==
    { NoConditions, BadConditions,
      Conditions([ks \in {<<107>>} |-> StrVal(<<118, 59>>)]),
      Conditions([ks \in {<<107>>, <<106>>} |->
                     IF ks = <<107>> THEN StrVal(<<37, 118>>) ELSE IntVal(7)]) }
ToolLimits ==
    { <<NoInt, NoInt>>, <<IntArg(-1), IntArg(-1)>>, <<IntArg(5), IntArg(1)>>,
      <<IntArg(2000), NoInt>>, <<IntArg(0), IntArg(0)>>,
      <<IntArg(1000), IntArg(2)>>, <<IntArg(1001), IntArg(-1)>> }
ToolOrderBys == { NoStr, StrArg(<<97, 32, 68, 69, 83, 67>>) }
ToolDryRuns == { NoBool, BoolArg(TRUE), BoolArg(FALSE) }
ToolColumns == { NoStr, StrArg(<<>>), StrArg(<<99>>) }
ToolFunctions == { NoStr, StrArg(<<115, 117, 109>>), StrArg(<<120>>) }
ToolGroupBys == { NoStr, StrArg(<<103>>) }

Request(tool, args) == [tool |-> tool, ctx |-> Background, args |-> args]

Requests ==
    { Request("db_query",
              Args(d, t, c, lo[1], lo[2], ob, dr, NoStr, NoStr, NoStr)) :
        d \in ToolDatabases, t \in ToolTables, c \in ToolConditions,
        lo \in ToolLimits, ob \in ToolOrderBys, dr \in ToolDryRuns }
    \cup
    { Request(tool,
              Args(d, t, NoConditions, NoInt, NoInt, NoStr, dr, NoStr, NoStr,
                   NoStr)) :
        tool \in {"db_table_list", "db_table_preview", "db_list_databases",
                  "semantic_summary"},
        d \in ToolDatabases, t \in ToolTables, dr \in ToolDryRuns }
    \cup
    { Request("analytics",
              Args(d, t, c, NoInt, NoInt, NoStr, NoBool, col, f, g)) :
        d \in ToolDatabases, t \in ToolTables, c \in ToolConditions,
        col \in ToolColumns, f \in ToolFunctions, g \in ToolGroupBys }
    \cup
    { Request(method,
              Args(d, t, NoConditions, NoInt, NoInt, NoStr, NoBool, NoStr, NoStr,
                   NoStr)) :
        method \in {"GetTableList", "GetTableInfo", "GetForeignKeys"},
        d \in {StrArg(<<109>>), StrArg(<<112>>)},
        t \in { StrArg(t) : t \in LookupTables } }

\* NewMCPServer: the repositories and the configuration, and the request
\* about to be handled.
InitTools ==
    /\ qb = [driver |-> ""]
    /\ call = Call("", <<>>, [ks \in {} |-> IntVal(0)], 0, 0, <<>>, <<>>, <<>>,
                   <<>>, <<>>)
    /\ ncalls = 0
    /\ out = NoResult
    /\ prev = NoResult
    /\ srv \in { [repositories |-> r, config |-> c] : r \in RepoMaps, c \in Configs }
    /\ request \in Requests
    /\ sent = <<>>
    /\ response = NoResponse
    /\ gos = Idle /\ mem = Idle /\ scan = Idle /\ intro = Idle /\ mgr = Idle

\* The handler returns `result` after sending `queries`.
Respond(queries, result) ==
    /\ sent' = sent \o queries
    /\ response' = result
    /\ UNCHANGED <<qb, call, ncalls, out, prev, srv, request>>
    /\ UNCHANGED <<gos, mem, scan, intro, mgr>>

\* DBToolsHandler.HandleDBQuery
HandleDBQuery ==
    /\ request.tool = "db_query"
    /\ response = NoResponse
    /\ \E fails \in SUBSET QueryPositions :
         LET args == request.args
             dbName == args.database.v
             tableName == args.table.v
         IN  IF ~args.database.present
             THEN Respond(<<>>, ErrorResult("missing database"))
             ELSE IF ~args.table.present
             THEN Respond(<<>>, ErrorResult("missing table"))
             ELSE IF dbName \notin DOMAIN srv.repositories
             THEN Respond(<<>>, ErrorResult("database not found"))
             ELSE IF args.conditions.json = "invalid"
             THEN Respond(<<>>, ErrorResult("invalid conditions JSON"))
             ELSE LET repo == srv.repositories[dbName]
                      conditions == args.conditions.map
                      limit == Limit(args, srv.config)
                      offset == Offset(args)
                      orderBy == GetString(args.order_by, <<>>)
                      dryRun == DryRun(args, srv.config)
                  IN  \E order \in Orders(conditions) :
                        LET built == BuildSelect(repo.driver, tableName,
                                                 conditions, order, limit,
                                                 offset, orderBy)
                            queryCtx == WithTimeout(request.ctx,
                                                    srv.config.QueryTimeout)
                        IN  IF dryRun
                            THEN Respond(<<>>, TextResult("preview", TRUE,
                                                          built.text, built.params))
                            ELSE IF 1 \in fails
                            THEN Respond(<<Query(queryCtx, built.text, built.params)>>,
                                         ErrorResult("query execution failed"))
                            ELSE Respond(<<Query(queryCtx, built.text, built.params)>>,
                                         TextResult("rows", FALSE, <<>>, <<>>))

\* DBToolsHandler.HandleDBTableList
HandleDBTableList ==
    /\ request.tool = "db_table_list"
    /\ response = NoResponse
    /\ \E fails \in SUBSET QueryPositions :
         LET args == request.args
             dbName == args.database.v
         IN  IF ~args.database.present
             THEN Respond(<<>>, ErrorResult("missing database"))
             ELSE IF dbName \notin DOMAIN srv.repositories
             THEN Respond(<<>>, ErrorResult("database not found"))
             ELSE LET got == GetTableListOf(srv.repositories[dbName],
                                            request.ctx, fails)
                  IN  IF got.err # "nil"
                      THEN Respond(got.sent, ErrorResult("failed to get table list"))
                      ELSE Respond(got.sent, TextResult("tables", FALSE, <<>>, <<>>))

\* DBToolsHandler.HandleDBTablePreview
HandleDBTablePreview ==
    /\ request.tool = "db_table_preview"
    /\ response = NoResponse
    /\ \E fails \in SUBSET QueryPositions :
         LET args == request.args
             dbName == args.database.v
             tableName == args.table.v
         IN  IF ~args.database.present
             THEN Respond(<<>>, ErrorResult("missing database"))
             ELSE IF ~args.table.present
             THEN Respond(<<>>, ErrorResult("missing table"))
             ELSE IF dbName \notin DOMAIN srv.repositories
             THEN Respond(<<>>, ErrorResult("database not found"))
             ELSE LET repo == srv.repositories[dbName]
                      built == BuildSelect(repo.driver, tableName,
                                           [ks \in {} |-> IntVal(0)], <<>>,
                                           srv.config.PreviewLimit, 0, <<>>)
                  IN  IF 1 \in fails
                      THEN Respond(<<Query(request.ctx, built.text, built.params)>>,
                                   ErrorResult("preview query failed"))
                      ELSE Respond(<<Query(request.ctx, built.text, built.params)>>,
                                   TextResult("preview rows", FALSE, <<>>, <<>>))

\* DBToolsHandler.HandleDBListDatabases
HandleDBListDatabases ==
    /\ request.tool = "db_list_databases"
    /\ response = NoResponse
    /\ Respond(<<>>, TextResult("databases", FALSE, <<>>, <<>>))

\* AnalyticsHandler.HandleAnalytics
HandleAnalytics ==
    /\ request.tool = "analytics"
    /\ response = NoResponse
    /\ \E fails \in SUBSET QueryPositions :
         LET args == request.args
             dbName == args.database.v
             tableName == args.table.v
             column == args.column.v
             aggFunction == ToUpper(args.function.v)
         IN  IF ~args.database.present \/ dbName = <<>>
             THEN Respond(<<>>, ErrorResult("missing database"))
             ELSE IF ~args.table.present \/ tableName = <<>>
             THEN Respond(<<>>, ErrorResult("missing table"))
             ELSE IF ~args.column.present \/ column = <<>>
             THEN Respond(<<>>, ErrorResult("missing column"))
             ELSE IF ~args.function.present \/ args.function.v = <<>>
             THEN Respond(<<>>, ErrorResult("missing function"))
             ELSE IF aggFunction \notin validAggFuncs
             THEN Respond(<<>>, ErrorResult("invalid aggregate function"))
             ELSE IF dbName \notin DOMAIN srv.repositories
             THEN Respond(<<>>, ErrorResult("database not found"))
             ELSE IF args.conditions.json = "invalid"
             THEN Respond(<<>>, ErrorResult("invalid conditions JSON"))
             ELSE LET repo == srv.repositories[dbName]
                      conditions == args.conditions.map
                      groupBy == GetString(args.group_by, <<>>)
                  IN  \E order \in Orders(conditions) :
                        LET built == BuildAggregation(repo.driver, tableName,
                                                      column, aggFunction,
                                                      conditions, order, groupBy)
                            queryCtx == WithTimeout(request.ctx,
                                                    srv.config.ExecutionTimeout)
                        IN  IF built.err # "nil"
                            THEN Respond(<<>>, ErrorResult("failed to build query"))
                            ELSE IF 1 \in fails
                            THEN Respond(<<Query(queryCtx, built.text, built.params)>>,
                                         ErrorResult("query execution failed"))
                            ELSE Respond(<<Query(queryCtx, built.text, built.params)>>,
                                         TextResult("analytics", FALSE, <<>>, <<>>))

\* SemanticSummaryHandler.HandleSemanticSummary
HandleSemanticSummary ==
    /\ request.tool = "semantic_summary"
    /\ response = NoResponse
    /\ \E fails \in SUBSET QueryPositions :
         LET args == request.args
             dbName == args.database.v
             tableName == args.table.v
         IN  IF ~args.database.present
             THEN Respond(<<>>, ErrorResult("missing database"))
             ELSE IF ~args.table.present
             THEN Respond(<<>>, ErrorResult("missing table"))
             ELSE IF dbName \notin DOMAIN srv.repositories
             THEN Respond(<<>>, ErrorResult("database not found"))
             ELSE LET repo == srv.repositories[dbName]
                      info == GetTableInfoOf(repo, request.ctx, tableName, fails)
                      built == BuildSelect(repo.driver, tableName,
                                           [ks \in {} |-> IntVal(0)], <<>>,
                                           srv.config.SampleSize, 0, <<>>)
                      sample == Query(request.ctx, built.text, built.params)
                  IN  IF info.err # "nil"
                      THEN Respond(info.sent, ErrorResult("failed to get table schema"))
                      ELSE IF 3 \in fails
                      THEN Respond(Append(info.sent, sample),
                                   ErrorResult("failed to sample table data"))
                      ELSE Respond(Append(info.sent, sample),
                                   TextResult("summary prompt", FALSE, <<>>, <<>>))

\* A call of GetTableList on a repository of the server.
GetTableList ==
    /\ request.tool = "GetTableList"
    /\ response = NoResponse
    /\ request.args.database.v \in DOMAIN srv.repositories
    /\ \E fails \in SUBSET QueryPositions :
         LET got == GetTableListOf(srv.repositories[request.args.database.v],
                                   request.ctx, fails)
         IN  Respond(got.sent,
                     IF got.err # "nil" THEN ErrorResult(got.err)
                     ELSE TextResult("tables", FALSE, <<>>, <<>>))

\* A call of GetTableInfo on a repository of the server.
GetTableInfo ==
    /\ request.tool = "GetTableInfo"
    /\ response = NoResponse
    /\ request.args.database.v \in DOMAIN srv.repositories
    /\ \E fails \in SUBSET QueryPositions :
         LET got == GetTableInfoOf(srv.repositories[request.args.database.v],
                                   request.ctx, request.args.table.v, fails)
         IN  Respond(got.sent,
                     IF got.err # "nil" THEN ErrorResult(got.err)
                     ELSE TextResult("table info", FALSE, <<>>, <<>>))

\* A call of GetForeignKeys on a repository of the server.
GetForeignKeys ==
    /\ request.tool = "GetForeignKeys"
    /\ response = NoResponse
    /\ request.args.database.v \in DOMAIN srv.repositories
    /\ \E fails \in SUBSET QueryPositions :
         LET got == GetForeignKeysOf(srv.repositories[request.args.database.v],
                                     request.ctx, request.args.table.v, fails)
         IN  Respond(got.sent,
                     IF got.err # "nil" THEN ErrorResult(got.err)
                     ELSE TextResult("foreign keys", FALSE, <<>>, <<>>))

NextTools ==
    \/ HandleDBQuery
    \/ HandleDBTableList
    \/ HandleDBTablePreview
    \/ HandleDBListDatabases
    \/ HandleAnalytics
    \/ HandleSemanticSummary
    \/ GetTableList
    \/ GetTableInfo
    \/ GetForeignKeys

SpecTools == InitTools /\ [][NextTools]_vars

---------------------------------------------------------------------------
(* Concurrent calls on one builder.  Two goroutines call build methods  *)
(* of the same *QueryBuilder with the same condition map.  A call is     *)
(* taken one statement at a time: its entry (the declarations and the    *)
(* first Sprintf), one iteration of the range loop, its return.  What a  *)
(* call reads of the builder and of the map it reads when the statement  *)
(* executes.                                                             *)

Goroutines == {"g1", "g2"}

\* The accumulators kept in a field of the shared builder.
MutCellOnBuilder(g) == "qb"

\* Where a call keeps query, whereClauses and params: they are variables
\* declared in the method, one set per call.
Cell(g) == g

Cells == Goroutines \cup {"qb"}
Frame(query, whereClauses, params) ==
    [query |-> query, whereClauses |-> whereClauses, params |-> params]
NoFrame == Frame(<<>>, <<>>, <<>>)

\* The text a method starts its query with.
GoHead(driver, c) ==
    IF c.op = "BuildSelect"
    THEN <<83, 69, 76, 69, 67, 84, 32, 42, 32, 70, 82, 79, 77, 32>>
             \o quoteIdentifier(driver, c.table)
    ELSE IF c.op = "BuildCount"
    THEN <<83, 69, 76, 69, 67, 84, 32, 67, 79, 85, 78, 84, 40, 42, 41,
           32, 70, 82, 79, 77, 32>> \o quoteIdentifier(driver, c.table)
    ELSE LET aggClause == NormalizeAggFunc(c.aggFunc) \o <<40>>
                              \o quoteIdentifier(driver, c.column)
                              \o <<41, 32, 97, 115, 32, 114, 101, 115, 117, 108, 116>>
             selectClause == IF c.groupBy # <<>> /\ isValidIdentifier(c.groupBy)
                             THEN quoteIdentifier(driver, c.groupBy) \o <<44, 32>>
                                      \o aggClause
                             ELSE aggClause
         IN  <<83, 69, 76, 69, 67, 84, 32>> \o selectClause
                 \o <<32, 70, 82, 79, 77, 32>> \o quoteIdentifier(driver, c.table)

\* The clause one iteration of a method's loop appends.
GoCondition(driver, c, key, value, position) ==
    IF c.op = "BuildSelect" THEN SelectCondition(driver, key, value, position)
    ELSE IF c.op = "BuildCount" THEN CountCondition(driver, key, value, position)
    ELSE AggCondition(driver, key, value, position)

\* The text a method adds after its WHERE clause.
GoTail(driver, c) ==
    IF c.op = "BuildSelect"
    THEN OrderByClause(c.orderBy) \o LimitOffsetClause(c.limit, c.offset)
    ELSE IF c.op = "BuildCount" THEN <<>>
    ELSE IF c.groupBy # <<>> /\ isValidIdentifier(c.groupBy)
    THEN <<32, 71, 82, 79, 85, 80, 32, 66, 89, 32>>
             \o quoteIdentifier(driver, c.groupBy)
    ELSE <<>>

Goroutine(c, pc, order, i, ret) ==
    [call |-> c, pc |-> pc, order |-> order, i |-> i, ret |-> ret]

\* The calls a goroutine makes, all with the one condition map: the three
\* methods with a loop (BuildAggregation with sum and with the unknown
\* function x) and the two lookups.
GoCalls(conditions) ==
    { Call("BuildSelect", <<116>>, conditions, 1, 1, <<97, 32, 68, 69, 83, 67>>,
           <<>>, <<>>, <<>>, <<>>),
      Call("BuildCount", <<116>>, conditions, 0, 0, <<>>, <<>>, <<>>, <<>>, <<>>),
      Call("BuildAggregation", <<116>>, conditions, 0, 0, <<>>, <<99>>,
           <<115, 117, 109>>, <<103>>, <<>>),
      Call("BuildAggregation", <<116>>, conditions, 0, 0, <<>>, <<99>>,
           <<120>>, <<>>, <<>>),
      Call("BuildTableList", <<>>, conditions, 0, 0, <<>>, <<>>, <<>>, <<>>, <<115>>),
      Call("BuildTableSchema", <<116>>, conditions, 0, 0, <<>>, <<>>, <<>>, <<>>,
           <<115>>) }

\* The condition maps the goroutines share: none, k = "v;", and
\* k = "%v" with j = 7.
GoCondMaps ==
    { [ks \in {} |-> IntVal(0)],
      [ks \in {<<107>>} |-> StrVal(<<118, 59>>)],
      [ks \in {<<107>>, <<106>>} |->
          IF ks = <<107>> THEN StrVal(<<37, 118>>) ELSE IntVal(7)] }

InitConcurrent ==
    /\ qb \in { [driver |-> d] : d \in Drivers }
    /\ call = Call("", <<>>, [ks \in {} |-> IntVal(0)], 0, 0, <<>>, <<>>, <<>>,
                   <<>>, <<>>)
    /\ ncalls = 0
    /\ out = NoResult
    /\ prev = NoResult
    /\ srv = NoServer
    /\ request = NoRequest
    /\ sent = <<>>
    /\ response = NoResponse
    /\ scan = Idle /\ intro = Idle /\ mgr = Idle
    /\ \E conditions \in GoCondMaps :
         /\ mem = [conditions |-> conditions, frames |-> [c \in Cells |-> NoFrame]]
         /\ gos \in [Goroutines -> { Goroutine(c, "call", <<>>, 0, NoResult) :
                                        c \in GoCalls(conditions) }]

\* A statement of goroutine g leaves the builder, the map and the other
\* goroutine as they are.
GoStep(g, next, frame) ==
    /\ gos' = [gos EXCEPT ![g] = next]
    /\ mem' = [mem EXCEPT !.frames[Cell(g)] = frame]
    /\ UNCHANGED <<qb, builderVars, toolVars, scan, intro, mgr>>

\* The entry of a method up to its loop; a lookup and a BuildAggregation
\* with an unknown function return from here.
GoCall(g) ==
    LET me == gos[g]
        c == me.call
    IN  /\ me.pc = "call"
        /\ IF c.op = "BuildTableList"
           THEN GoStep(g, Goroutine(c, "done", <<>>, 0,
                                    BuildTableList(qb.driver, c.s)), NoFrame)
           ELSE IF c.op = "BuildTableSchema"
           THEN GoStep(g, Goroutine(c, "done", <<>>, 0,
                                    BuildTableSchema(qb.driver, c.table, c.s)),
                       NoFrame)
           ELSE IF c.op = "BuildAggregation"
                   /\ NormalizeAggFunc(c.aggFunc) \notin validAggFuncs
           THEN GoStep(g, Goroutine(c, "done", <<>>, 0,
                                    Result(<<>>, <<>>, "invalid aggregate function",
                                           <<>>, <<>>)),
                       NoFrame)
           ELSE \E order \in Orders(mem.conditions) :
                  GoStep(g, Goroutine(c, "range", order, 1, NoResult),
                         Frame(GoHead(qb.driver, c), <<>>, <<>>))

\* One iteration of the range loop over the condition map.
GoRange(g) ==
    LET me == gos[g]
        f == mem.frames[Cell(g)]
    IN  /\ me.pc = "range"
        /\ me.i <= Len(me.order)
        /\ LET key == me.order[me.i]
               value == mem.conditions[key]
           IN  GoStep(g, [me EXCEPT !.i = me.i + 1],
                      Frame(f.query,
                            Append(f.whereClauses,
                                   GoCondition(qb.driver, me.call, key, value,
                                               Len(f.params) + 1)),
                            Append(f.params, value)))

\* The statements after the loop, and the return.
GoReturn(g) ==
    LET me == gos[g]
        f == mem.frames[Cell(g)]
        where == IF Cardinality(DOMAIN mem.conditions) > 0
                 THEN <<32, 87, 72, 69, 82, 69, 32>>
                          \o Join(f.whereClauses, <<32, 65, 78, 68, 32>>)
                 ELSE <<>>
    IN  /\ me.pc = "range"
        /\ me.i > Len(me.order)
        /\ GoStep(g, [me EXCEPT !.pc = "done",
                                 !.ret = Result(f.query \o where
                                                    \o GoTail(qb.driver, me.call),
                                                f.params, "nil", f.whereClauses,
                                                me.order)],
                  f)

NextConcurrent ==
    \/ \E g \in Goroutines : GoCall(g)
    \/ \E g \in Goroutines : GoRange(g)
    \/ \E g \in Goroutines : GoReturn(g)

SpecConcurrent == InitConcurrent /\ [][NextConcurrent]_vars

---------------------------------------------------------------------------
(* The redis_scan tool (tools/redis_tools.go).  The handler is taken one *)
(* SCAN call at a time; what the backend replies is the input of the     *)
(* step.  A key is named by the number of the reply that carried it.     *)

\* RedisToolsConfig as far as the scan uses it.  COUNT is a hint to the
\* backend: it does not bound the keys of a reply.
ScanConfigs ==
    { [MaxScanKeys |-> m, ScanCount |-> c] :
        m \in 0..MaxScanKeysBound, c \in {1, MaxReplyKeys} }

\* The redis argument: absent, the configured client r, an unknown name x.
ScanRedisArgs == { NoStr, StrArg(<<114>>), StrArg(<<120>>) }
RedisClients == { <<114>> }

\* What a SCAN call can return: keys and the next cursor, or an error.
ScanReply(n, nkeys, newCursor, err) ==
    [keys |-> [j \in 1..nkeys |-> n], newCursor |-> newCursor, err |-> err]
ScanReplies(n) ==
    { ScanReply(n, nkeys, newCursor, FALSE) :
        nkeys \in 0..MaxReplyKeys, newCursor \in {0, 7} }
    \cup { ScanReply(n, 0, 0, TRUE) }

ScanErrorResult(kind) ==
    [isError |-> TRUE, kind |-> kind, keys |-> <<>>, count |-> 0,
     limited |-> FALSE]
\* The result map of HandleRedisScan.
ScanResult(allKeys, maxKeys) ==
    [isError |-> FALSE, kind |-> "keys", keys |-> allKeys, count |-> Len(allKeys),
     limited |-> Len(allKeys) >= maxKeys]
NoScanResult ==
    [isError |-> FALSE, kind |-> "none", keys |-> <<>>, count |-> 0,
     limited |-> FALSE]

InitScan ==
    /\ qb = [driver |-> ""]
    /\ call = Call("", <<>>, [ks \in {} |-> IntVal(0)], 0, 0, <<>>, <<>>, <<>>,
                   <<>>, <<>>)
    /\ ncalls = 0
    /\ out = NoResult
    /\ prev = NoResult
    /\ srv = NoServer
    /\ request = NoRequest
    /\ sent = <<>>
    /\ response = NoResponse
    /\ gos = Idle /\ mem = Idle /\ intro = Idle /\ mgr = Idle
    /\ scan \in { [config |-> c, redis |-> r, pc |-> "call", allKeys |-> <<>>,
                    cursor |-> 0, calls |-> <<>>, result |-> NoScanResult] :
                    c \in ScanConfigs, r \in ScanRedisArgs }

ScanStep(next) ==
    /\ scan' = next
    /\ UNCHANGED <<qb, builderVars, toolVars, gos, mem, intro, mgr>>

\* HandleRedisScan up to its loop: the redis argument, the client, and the
\* first test of the loop condition.
HandleRedisScan ==
    /\ scan.pc = "call"
    /\ IF ~scan.redis.present
       THEN ScanStep([scan EXCEPT !.pc = "done",
                                  !.result = ScanErrorResult("missing redis")])
       ELSE IF scan.redis.v \notin RedisClients
       THEN ScanStep([scan EXCEPT !.pc = "done",
                                  !.result = ScanErrorResult("redis not found")])
       ELSE IF Len(scan.allKeys) < scan.config.MaxScanKeys
       THEN ScanStep([scan EXCEPT !.pc = "loop"])
       ELSE ScanStep([scan EXCEPT !.pc = "done",
                                  !.result = ScanResult(scan.allKeys,
                                                        scan.config.MaxScanKeys)])

\* One iteration of the loop: a SCAN call, the append, the two breaks and
\* the loop condition; when the loop ends, the result is returned.
Scan ==
    /\ scan.pc = "loop"
    /\ Len(scan.calls) < MaxScans
    /\ \E reply \in ScanReplies(Len(scan.calls) + 1) :
         LET maxKeys == scan.config.MaxScanKeys
             calls == Append(scan.calls, [cursor |-> scan.cursor,
                                          count |-> scan.config.ScanCount])
             allKeys == scan.allKeys \o reply.keys
             cursor == reply.newCursor
         IN  IF reply.err
             THEN ScanStep([scan EXCEPT !.pc = "done", !.calls = calls,
                                        !.result = ScanErrorResult("SCAN failed")])
             ELSE IF cursor = 0
             THEN ScanStep([scan EXCEPT !.pc = "done", !.calls = calls,
                                        !.allKeys = allKeys, !.cursor = cursor,
                                        !.result = ScanResult(allKeys, maxKeys)])
             ELSE IF Len(allKeys) >= maxKeys
             THEN ScanStep([scan EXCEPT !.pc = "done", !.calls = calls,
                                        !.allKeys = SubSeq(allKeys, 1, maxKeys),
                                        !.cursor = cursor,
                                        !.result = ScanResult(SubSeq(allKeys, 1, maxKeys),
                                                              maxKeys)])
             ELSE ScanStep([scan EXCEPT !.calls = calls, !.allKeys = allKeys,
                                        !.cursor = cursor])

NextScan ==
    \/ HandleRedisScan
    \/ Scan

SpecScan == InitScan /\ [][NextScan]_vars

---------------------------------------------------------------------------
(* The introspection tool (IntrospectionHandler.HandleIntrospection).   *)
(* The handler holds the repositories, a map of Redis clients and its    *)
(* configuration.  Of each Redis client the model keeps the value of the *)
(* request's cache key ("" when the key does not exist).  A text is      *)
(* modelled by a name: the values the cache may hold, and "fresh" for    *)
(* the JSON the handler marshals.                                        *)

\* IntrospectionConfig: the cache switched on or off, the TTL in seconds.
IntroConfigs == { [UseRedisCache |-> u, CacheTTL |-> 3600] : u \in BOOLEAN }

\* The maps of Redis clients: none, one, two; each client holding the key
\* with a value or not holding it.
CachedTexts == { "", "cached one", "cached two" }
IntroRedisClients ==
    { [n \in {} |-> ""] }
    \cup [{"r1"} -> CachedTexts]
    \cup [{"r1", "r2"} -> {"", "cached one"}]

\* The tables GetTableList returns: none, or the table t.
IntroTables == { <<>>, << <<116>> >> }

\* fmt.Sprintf("introspection:%s", dbName)
CacheKey(dbName) ==
    <<105, 110, 116, 114, 111, 115, 112, 101, 99, 116, 105, 111, 110, 58>> \o dbName

\* A call of RedisClient.Get or RedisClient.Set and whether it failed.
CacheGet(client, key, err) ==
    [op |-> "Get", client |-> client, key |-> key, value |-> "", ttl |-> 0,
     err |-> err]
CacheSet(client, key, value, ttl, err) ==
    [op |-> "Set", client |-> client, key |-> key, value |-> value, ttl |-> ttl,
     err |-> err]

\* The cache is read whether or not a refresh is asked for.
MutReadCacheOnRefresh(refresh, config, redisClients) ==
    config.UseRedisCache /\ Cardinality(DOMAIN redisClients) > 0

\* The condition under which the handler reads the cache first.
ReadCache(refresh, config, redisClients) ==
    ~refresh /\ config.UseRedisCache /\ Cardinality(DOMAIN redisClients) > 0

\* The condition under which the handler writes its result to the cache.
WriteCache(config, redisClients) ==
    config.UseRedisCache /\ Cardinality(DOMAIN redisClients) > 0

IntroResult(isError, text) == [isError |-> isError, text |-> text, err |-> "nil"]
NoIntroResult == [isError |-> FALSE, text |-> "none", err |-> "nil"]

InitIntrospection ==
    /\ qb = [driver |-> ""]
    /\ call = Call("", <<>>, [ks \in {} |-> IntVal(0)], 0, 0, <<>>, <<>>, <<>>,
                   <<>>, <<>>)
    /\ ncalls = 0
    /\ out = NoResult
    /\ prev = NoResult
    /\ srv = NoServer
    /\ request = NoRequest
    /\ sent = <<>>
    /\ response = NoResponse
    /\ gos = Idle /\ mem = Idle /\ scan = Idle /\ mgr = Idle
    /\ intro \in { [repositories |-> r, redisClients |-> rc, config |-> c,
                     database |-> d, refresh |-> f, ctx |-> Background,
                     stored |-> rc, cacheOps |-> <<>>, sent |-> <<>>,
                     result |-> NoIntroResult] :
                     r \in RepoMaps, rc \in IntroRedisClients, c \in IntroConfigs,
                     d \in ToolDatabases, f \in ToolDryRuns }

\* The handler returns `result`, having made the given cache calls and
\* sent the given queries, and leaving the given values under the key.
IntroReturn(cacheOps, queries, stored, result) ==
    /\ intro' = [intro EXCEPT !.cacheOps = cacheOps, !.sent = queries,
                               !.stored = stored, !.result = result]
    /\ UNCHANGED <<qb, builderVars, toolVars, gos, mem, scan, mgr>>

\* The queries of the loop over the tables: GetTableInfo and, when it
\* succeeds, GetForeignKeys, whose error is ignored.
IntroTableQueries(repo, ctx, tables, infoFails, fkFails) ==
    IF tables = <<>> THEN <<>>
    ELSE LET info == GetTableInfoOf(repo, ctx, tables[1], infoFails)
             fks == GetForeignKeysOf(repo, ctx, tables[1], fkFails)
         IN  IF info.err # "nil" THEN info.sent ELSE info.sent \o fks.sent

\* IntrospectionHandler.HandleIntrospection.  `range` over the map of
\* Redis clients visits them in an order Go does not specify, so the
\* client read and the client written are any of them.
HandleIntrospection ==
    /\ intro.result = NoIntroResult
    /\ \E getErr, setErr \in BOOLEAN, tables \in IntroTables,
          listFails, infoFails, fkFails \in {{}, {1}} :
         LET dbName == intro.database.v
             refresh == GetBool(intro.refresh, FALSE)
             cacheKey == CacheKey(dbName)
             clients == DOMAIN intro.redisClients
         IN  IF ~intro.database.present
             THEN IntroReturn(<<>>, <<>>, intro.stored,
                              IntroResult(TRUE, "missing database"))
             ELSE IF dbName \notin DOMAIN intro.repositories
             THEN IntroReturn(<<>>, <<>>, intro.stored,
                              IntroResult(TRUE, "database not found"))
             ELSE \E first \in IF clients = {} THEN {"none"} ELSE clients,
                     last \in IF clients = {} THEN {"none"} ELSE clients :
                  LET repo == intro.repositories[dbName]
                      reads == ReadCache(refresh, intro.config, intro.redisClients)
                      cached == IF reads /\ ~getErr
                                THEN intro.redisClients[first] ELSE ""
                      gets == IF reads THEN <<CacheGet(first, cacheKey, getErr)>>
                              ELSE <<>>
                      list == GetTableListOf(repo, intro.ctx, listFails)
                      queries == list.sent
                                     \o IntroTableQueries(repo, intro.ctx, tables,
                                                          infoFails, fkFails)
                      writes == WriteCache(intro.config, intro.redisClients)
                      ttl == intro.config.CacheTTL
                      sets == IF writes
                              THEN <<CacheSet(last, cacheKey, "fresh", ttl, setErr)>>
                              ELSE <<>>
                      stored == IF writes /\ ~setErr
                                THEN [intro.stored EXCEPT ![last] = "fresh"]
                                ELSE intro.stored
                  IN  IF reads /\ ~getErr /\ cached # ""
                      THEN IntroReturn(gets, <<>>, intro.stored,
                                       IntroResult(FALSE, cached))
                      ELSE IF list.err # "nil"
                      THEN IntroReturn(gets, list.sent, intro.stored,
                                       IntroResult(TRUE, "failed to get table list"))
                      ELSE IntroReturn(gets \o sets, queries, stored,
                                       IntroResult(FALSE, "fresh"))

NextIntrospection == HandleIntrospection

SpecIntrospection == InitIntrospection /\ [][NextIntrospection]_vars

---------------------------------------------------------------------------
(* The transport manager (transports/manager.go) and its transports.     *)
(* StartAll launches one goroutine per transport, running its Start, and *)
(* one running the health checker; StopAll cancels the manager context,  *)
(* calls Stop on each transport in turn and waits for the goroutines.    *)
(* A goroutine is taken one statement at a time.  What the mcp-go        *)
(* library does inside ServeStdio and SSEServer.Start is not code of     *)
(* this repository: ServeStdio is not given the manager context and      *)
(* returns when the library decides to (standard input ends, a signal    *)
(* reaches it); SSEServer.Start returns once Shutdown is called on the   *)
(* server it is serving, or when serving fails, which also stands for    *)
(* whatever the library does when Shutdown came first.                   *)

\* The transports in the order Initialize appends them.
AllTransports == <<"stdio", "http", "sse", "inprocess">>
TransportNames == { AllTransports[i] : i \in 1..Len(AllTransports) }

EnabledTransports(enabled) == SelectSeq(AllTransports, LAMBDA t : t \in enabled)

\* NewManager and Initialize: the enabled transports, none healthy, no
\* goroutine launched, the context not cancelled.
NewManager(enabled) ==
    [transports |-> EnabledTransports(enabled),
     healthy |-> [t \in enabled |-> FALSE],
     cancelled |-> FALSE,
     started |-> FALSE,
     wg |-> 0,
     go |-> [t \in enabled |-> "new"],
     checker |-> "new",
     warned |-> {},
     shutdown |-> "no",
     stopAll |-> [pc |-> "idle", i |-> 1],
     wait |-> "idle"]

InitManager ==
    /\ qb = [driver |-> ""]
    /\ call = Call("", <<>>, [ks \in {} |-> IntVal(0)], 0, 0, <<>>, <<>>, <<>>,
                   <<>>, <<>>)
    /\ ncalls = 0
    /\ out = NoResult
    /\ prev = NoResult
    /\ srv = NoServer
    /\ request = NoRequest
    /\ sent = <<>>
    /\ response = NoResponse
    /\ gos = Idle /\ mem = Idle /\ scan = Idle /\ intro = Idle
    /\ mgr \in { NewManager(enabled) : enabled \in SUBSET TransportNames \ {{}} }

ManagerStep(next) ==
    /\ mgr' = next
    /\ UNCHANGED <<qb, builderVars, toolVars, gos, mem, scan, intro>>

\* Manager.StartAll: wg.Add(1) and a goroutine per transport, then the
\* same for the health checker.
StartAll ==
    /\ ~mgr.started
    /\ ManagerStep([mgr EXCEPT !.started = TRUE,
                                !.wg = Len(mgr.transports) + 1,
                                !.go = [t \in DOMAIN mgr.go |-> "launched"],
                                !.checker = "launched"])

\* The first statements of a transport's Start, up to the call or the
\* receive it blocks in: t.healthy = true.
TransportStart(t) ==
    /\ t \in DOMAIN mgr.go
    /\ mgr.go[t] = "launched"
    /\ ManagerStep([mgr EXCEPT !.healthy[t] = TRUE,
                                !.go[t] = "serving"])

\* The goroutine of a transport ends: Start has returned, wg.Done().
StartReturns(t, healthy) ==
    ManagerStep([mgr EXCEPT !.healthy[t] = healthy, !.go[t] = "done",
                            !.wg = mgr.wg - 1])

\* HTTPTransport.Start and InProcessTransport.Start: <-ctx.Done(), return.
ContextDone(t) ==
    /\ t \in DOMAIN mgr.go \cap {"http", "inprocess"}
    /\ mgr.go[t] = "serving"
    /\ mgr.cancelled
    /\ StartReturns(t, mgr.healthy[t])

\* StdioTransport.Start: ServeStdio returns, with an error or without.
ServeStdioReturns ==
    /\ "stdio" \in DOMAIN mgr.go
    /\ mgr.go["stdio"] = "serving"
    /\ \E err \in BOOLEAN :
         StartReturns("stdio", IF err THEN FALSE ELSE mgr.healthy["stdio"])

\* SSETransport.Start: sseServer.Start returns its error after Shutdown
\* was called on the serving server.
SSEServerClosed ==
    /\ "sse" \in DOMAIN mgr.go
    /\ mgr.go["sse"] = "serving"
    /\ mgr.shutdown = "serving"
    /\ StartReturns("sse", FALSE)

\* SSETransport.Start: sseServer.Start returns an error for another reason.
SSEServeFails ==
    /\ "sse" \in DOMAIN mgr.go
    /\ mgr.go["sse"] = "serving"
    /\ mgr.shutdown # "serving"
    /\ StartReturns("sse", FALSE)

\* HealthChecker.Run: a tick, and checkHealth warning of the transports
\* that report unhealthy.
HealthTick ==
    /\ mgr.checker = "launched"
    /\ ManagerStep([mgr EXCEPT !.warned = mgr.warned \cup
                                   { t \in DOMAIN mgr.healthy : ~mgr.healthy[t] }])

\* HealthChecker.Run: <-ctx.Done(), return, wg.Done().
HealthCheckerDone ==
    /\ mgr.checker = "launched"
    /\ mgr.cancelled
    /\ ManagerStep([mgr EXCEPT !.checker = "done", !.wg = mgr.wg - 1])

\* Manager.StopAll, its first statement: m.cancel().
StopAllCancel ==
    /\ mgr.started
    /\ mgr.stopAll.pc = "idle"
    /\ ManagerStep([mgr EXCEPT !.cancelled = TRUE,
                                !.stopAll = [pc |-> "stopping", i |-> 1]])

\* Manager.StopAll, one iteration of its loop: transport.Stop, which sets
\* healthy to false and, for SSE, calls sseServer.Shutdown.
StopTransport ==
    /\ mgr.stopAll.pc = "stopping"
    /\ LET i == mgr.stopAll.i
           t == mgr.transports[i]
           last == i = Len(mgr.transports)
       IN  ManagerStep([mgr EXCEPT
               !.healthy[t] = FALSE,
               !.shutdown = IF t = "sse"
                            THEN (IF mgr.go[t] = "serving" THEN "serving"
                                  ELSE "early")
                            ELSE mgr.shutdown,
               !.stopAll = IF last THEN [pc |-> "wait", i |-> i + 1]
                           ELSE [pc |-> "stopping", i |-> i + 1]])

\* Manager.StopAll: m.wg.Wait() returns, and StopAll with it.
StopAllReturn ==
    /\ mgr.stopAll.pc = "wait"
    /\ mgr.wg = 0
    /\ ManagerStep([mgr EXCEPT !.stopAll.pc = "returned"])

\* Manager.Wait is called, after StartAll as in main.
WaitCall ==
    /\ mgr.started
    /\ mgr.wait = "idle"
    /\ ManagerStep([mgr EXCEPT !.wait = "waiting"])

\* Manager.Wait: m.wg.Wait() returns.
WaitReturn ==
    /\ mgr.wait = "waiting"
    /\ mgr.wg = 0
    /\ ManagerStep([mgr EXCEPT !.wait = "returned"])

NextManager ==
    \/ StartAll
    \/ \E t \in TransportNames : TransportStart(t)
    \/ \E t \in TransportNames : ContextDone(t)
    \/ ServeStdioReturns
    \/ SSEServerClosed
    \/ SSEServeFails
    \/ HealthTick
    \/ HealthCheckerDone
    \/ StopAllCancel
    \/ StopTransport
    \/ StopAllReturn
    \/ WaitCall
    \/ WaitReturn

SpecManager == InitManager /\ [][NextManager]_vars

\* The Go scheduler runs every goroutine that can run: each statement of
\* the program that stays enabled is executed.  Nothing makes the caller
\* call StopAll or Wait, a tick arrive, standard input end, or the SSE
\* server fail.
FairManager ==
    /\ WF_vars(StartAll)
    /\ \A t \in TransportNames : WF_vars(TransportStart(t))
    /\ \A t \in TransportNames : WF_vars(ContextDone(t))
    /\ WF_vars(SSEServerClosed)
    /\ WF_vars(HealthCheckerDone)
    /\ WF_vars(StopTransport)
    /\ WF_vars(StopAllReturn)
    /\ WF_vars(WaitReturn)

SpecManagerFair == InitManager /\ [][NextManager]_vars /\ FairManager

---------------------------------------------------------------------------
(* Vocabulary of the properties. *)

\* The call of the given operation has returned.
Returned(op) == call.op = op /\ ncalls > 0

\* One of the three query-building operations has returned.
BuildReturned ==
    call.op \in {"BuildSelect", "BuildCount", "BuildAggregation"} /\ ncalls > 0

\* s ends with suffix.
EndsWith(s, suffix) ==
    /\ Len(s) >= Len(suffix)
    /\ SubSeq(s, Len(s) - Len(suffix) + 1, Len(s)) = suffix

\* The number of occurrences of rune c in s.
CountRune(s, c) == Cardinality({i \in 1..Len(s) : s[i] = c})

\* A condition map with every value replaced by a fixed value of the same
\* kind (a LIKE pattern, or not).
Scrub(conditions) ==
    [k \in DOMAIN conditions |->
        IF IsLikePattern(conditions[k]) THEN StrVal(<<37>>) ELSE IntVal(0)]

KwOrderBy == <<32, 79, 82, 68, 69, 82, 32, 66, 89, 32>>
KwLimit == <<32, 76, 73, 77, 73, 84, 32>>
KwOffset == <<32, 79, 70, 70, 83, 69, 84, 32>>
KwWhere == <<32, 87, 72, 69, 82, 69, 32>>
KwAnd == <<32, 65, 78, 68, 32>>

---------------------------------------------------------------------------
(* C1 *)

\* C1: the text BuildSelect and BuildCount return holds no condition value.
\* Every value of the condition map is an element of the returned parameter
\* list and every parameter is such a value; the text does not contain the
\* printed form of any value (the values drawn share no rune sequence with
\* the other inputs, as an injection payload does not); and the text is the
\* one the same call returns when every value is replaced by a fixed value
\* of its kind, so nothing of a value but "is a LIKE pattern" reaches it.
C1_ValuesOnlyInParams ==
    (call.op \in {"BuildSelect", "BuildCount"} /\ ncalls > 0) =>
        /\ \A k \in DOMAIN call.conditions :
             \E i \in 1..Len(out.params) : out.params[i] = call.conditions[k]
        /\ \A i \in 1..Len(out.params) :
             \E k \in DOMAIN call.conditions : out.params[i] = call.conditions[k]
        /\ \A k \in DOMAIN call.conditions :
             ~Contains(out.text, RenderValue(call.conditions[k]))
        /\ out.text =
             IF call.op = "BuildSelect"
             THEN BuildSelect(qb.driver, call.table, Scrub(call.conditions),
                              out.order, call.limit, call.offset, call.orderBy).text
             ELSE BuildCount(qb.driver, call.table, Scrub(call.conditions),
                             out.order).text

\* BuildSelect has returned for a map of two entries, one of them the
\* payload string v; .
C1_Witness ==
    /\ Returned("BuildSelect")
    /\ Cardinality(DOMAIN call.conditions) = 2
    /\ \E k \in DOMAIN call.conditions : call.conditions[k] = StrVal(<<118, 59>>)
    /\ Len(out.params) = 2

---------------------------------------------------------------------------
(* C2 *)

\* A name that fails identifier validation once its surrounding quote
\* characters are stripped (as quoteIdentifier strips them).
InvalidName(name) == ~isValidIdentifier(Trim(name, {96, 34}))

\* C2: BuildSelect, BuildCount and BuildAggregation reject a call whose table,
\* aggregate column or some condition key is not a valid identifier: such a
\* call returns an error and no query text.
C2_InvalidNamesRejected ==
    ( /\ BuildReturned
      /\ \/ InvalidName(call.table)
         \/ \E k \in DOMAIN call.conditions : InvalidName(k)
         \/ (call.op = "BuildAggregation" /\ InvalidName(call.column)) )
    => (out.err # "nil" /\ out.text = <<>>)

---------------------------------------------------------------------------
(* C3 *)

\* The clause begins with the quoted column k followed by a space.
ClauseNames(clause, k) ==
    LET q == quote(qb.driver, k) \o <<32>>
    IN  Len(clause) >= Len(q) /\ SubSeq(clause, 1, Len(q)) = q

\* C3: in the output of the three operations the WHERE clause and the
\* parameter list stay in lock-step in whatever order the map is visited:
\* there are as many parameters and clauses as conditions, every key has its
\* clause, the i-th clause names a column k whose value conditions[k] is the
\* i-th parameter, and the text holds the clauses joined by AND after WHERE.
C3_LockStep ==
    (BuildReturned /\ out.err = "nil") =>
        LET n == Cardinality(DOMAIN call.conditions)
        IN  /\ Len(out.params) = n
            /\ Len(out.clauses) = n
            /\ \A k \in DOMAIN call.conditions :
                 \E i \in 1..n : /\ ClauseNames(out.clauses[i], k)
                                 /\ out.params[i] = call.conditions[k]
            /\ \A i \in 1..n :
                 \A k \in DOMAIN call.conditions :
                    ClauseNames(out.clauses[i], k) => out.params[i] = call.conditions[k]
            /\ n > 0 => Contains(out.text, KwWhere \o Join(out.clauses, KwAnd))

\* A build has returned for a map whose two entries have different values,
\* visited with the key k; first.
C3_Witness ==
    /\ BuildReturned
    /\ out.err = "nil"
    /\ Len(out.order) = 2
    /\ out.order[1] = <<107, 59>>
    /\ out.params[1] # out.params[2]

---------------------------------------------------------------------------
(* C4 *)

\* C4: a "postgres" builder emits the placeholders $1, $2, ..., $N, the i-th
\* clause ending in $i (the position of its value in the parameter list) and
\* the text holding N dollar signs; a "mysql" builder emits ? in every
\* clause and no dollar sign.
C4_Placeholders ==
    (BuildReturned /\ out.err = "nil") =>
        /\ qb.driver = "postgres" =>
             /\ \A i \in 1..Len(out.clauses) :
                  EndsWith(out.clauses[i], <<32, 36>> \o Itoa(i))
             /\ CountRune(out.text, 36) = Len(out.params)
        /\ qb.driver = "mysql" =>
             /\ \A i \in 1..Len(out.clauses) : EndsWith(out.clauses[i], <<32, 63>>)
             /\ CountRune(out.text, 36) = 0
             /\ CountRune(out.text, 63) = Len(out.params)

\* A "postgres" build has returned two clauses, the second ending in $2.
C4_Witness ==
    /\ BuildReturned
    /\ qb.driver = "postgres"
    /\ Len(out.clauses) = 2
    /\ EndsWith(out.clauses[2], <<36, 50>>)

---------------------------------------------------------------------------
(* C5 *)

\* C5: two calls with the same builder and equal arguments return the same
\* text and the same parameter list.
C5_Deterministic ==
    ncalls >= 2 => (out.text = prev.text /\ out.params = prev.params)

---------------------------------------------------------------------------
(* C6 *)

\* The allow-list as the specification states it.
AllowedAggregates ==
    { <<67, 79, 85, 78, 84>>, <<83, 85, 77>>, <<65, 86, 71>>, <<77, 73, 78>>,
      <<77, 65, 88>> }

\* C6: BuildAggregation succeeds iff the upper-cased aggFunc is one of COUNT,
\* SUM, AVG, MIN, MAX; otherwise it returns an error with an empty text and no
\* parameters (so the rejected name is in no returned text); on success the
\* text contains the upper-case name followed by "(".
C6_AggregateAllowList ==
    Returned("BuildAggregation") =>
        LET upper == ToUpper(call.aggFunc)
            allowed == upper \in AllowedAggregates
        IN  /\ (out.err = "nil") <=> allowed
            /\ ~allowed => (out.text = <<>> /\ out.params = <<>>)
            /\ (~allowed /\ call.aggFunc # <<>>) => ~Contains(out.text, call.aggFunc)
            /\ allowed => Contains(out.text, upper \o <<40>>)

\* BuildAggregation has succeeded for the lower-case name sum.
C6_Witness ==
    /\ Returned("BuildAggregation")
    /\ call.aggFunc = <<115, 117, 109>>
    /\ out.err = "nil"
    /\ Contains(out.text, <<83, 85, 77, 40>>)

---------------------------------------------------------------------------
(* C7 *)

\* ASCII letters, ASCII digits, underscore and dot.
IdentifierRunes == (65..90) \cup (97..122) \cup (48..57) \cup {95, 46}

\* C7: isValidIdentifier(s) is true iff s is non-empty and every rune of s is
\* an ASCII letter, an ASCII digit, underscore or dot, whatever its length.
C7_IdentifierCharset ==
    Returned("isValidIdentifier") =>
        out.ret = ( /\ call.s # <<>>
                    /\ \A i \in 1..Len(call.s) : call.s[i] \in IdentifierRunes )

\* isValidIdentifier has accepted a name of the greatest length drawn that
\* contains a dot.
C7_Witness ==
    /\ Returned("isValidIdentifier")
    /\ Len(call.s) = MaxIdentLen
    /\ \E i \in 1..Len(call.s) : call.s[i] = 46
    /\ out.ret

---------------------------------------------------------------------------
(* C8 *)

\* The ORDER BY rule as stated, applied to the string itself: in every comma
\* separated part the first token is a valid identifier and every later one
\* is ASC or DESC in any case.
OrderByRule(s) ==
    LET parts == Split(s, 44)
    IN  \A p \in 1..Len(parts) :
          LET tokens == Fields(parts[p])
          IN  \A i \in 1..Len(tokens) :
                IF i = 1
                THEN isValidIdentifier(tokens[i])
                ELSE ToUpper(tokens[i]) \in {<<65, 83, 67>>, <<68, 69, 83, 67>>}

\* C8: isValidOrderBy(s) is true iff s follows the ORDER BY rule.
C8_OrderByRule ==
    Returned("isValidOrderBy") => out.ret = OrderByRule(call.s)

---------------------------------------------------------------------------
(* C9 *)

\* C9: BuildSelect emits an ORDER BY clause iff orderBy is non-empty and
\* passes isValidOrderBy; an emitted clause is the caller's string verbatim
\* after " ORDER BY "; a rejected orderBy leaves exactly the text and the
\* parameters of the same call with orderBy = "", and no error.
C9_OrderByClause ==
    Returned("BuildSelect") =>
        LET accepted == call.orderBy # <<>> /\ isValidOrderBy(call.orderBy)
            bare == BuildSelect(qb.driver, call.table, call.conditions, out.order,
                                call.limit, call.offset, <<>>)
        IN  /\ Contains(out.text, KwOrderBy) <=> accepted
            /\ accepted => Contains(out.text, KwOrderBy \o call.orderBy)
            /\ ~accepted => /\ out.text = bare.text
                            /\ out.params = bare.params
                            /\ out.err = "nil"

\* BuildSelect has returned for a rejected orderBy, with a condition, a
\* limit and an offset.
C9_Witness ==
    /\ Returned("BuildSelect")
    /\ call.orderBy # <<>>
    /\ ~isValidOrderBy(call.orderBy)
    /\ DOMAIN call.conditions # {}
    /\ call.limit > 0
    /\ call.offset > 0
    /\ Contains(out.text, KwLimit)

---------------------------------------------------------------------------
(* C10 *)

\* C10: BuildSelect appends " LIMIT n" iff limit > 0 and " OFFSET m" iff
\* offset > 0, each independently; the text ends with them, LIMIT first, and
\* what precedes them (WHERE, ORDER BY) holds neither; neither adds a
\* parameter.
C10_LimitOffset ==
    Returned("BuildSelect") =>
        LET lim == IF call.limit > 0 THEN KwLimit \o Itoa(call.limit) ELSE <<>>
            off == IF call.offset > 0 THEN KwOffset \o Itoa(call.offset) ELSE <<>>
            head == SubSeq(out.text, 1, Len(out.text) - Len(lim \o off))
        IN  /\ Contains(out.text, KwLimit) <=> call.limit > 0
            /\ Contains(out.text, KwOffset) <=> call.offset > 0
            /\ EndsWith(out.text, lim \o off)
            /\ ~Contains(head, KwLimit)
            /\ ~Contains(head, KwOffset)
            /\ Contains(out.text, KwWhere) => Contains(head, KwWhere)
            /\ Contains(out.text, KwOrderBy) => Contains(head, KwOrderBy)
            /\ Len(out.params) = Cardinality(DOMAIN call.conditions)

\* BuildSelect has returned a text with WHERE, ORDER BY, LIMIT and OFFSET.
C10_Witness ==
    /\ Returned("BuildSelect")
    /\ call.limit > 0
    /\ call.offset > 0
    /\ Contains(out.text, KwWhere)
    /\ Contains(out.text, KwOrderBy)
    /\ Contains(out.text, KwLimit \o Itoa(call.limit) \o KwOffset \o Itoa(call.offset))

---------------------------------------------------------------------------
(* C11 *)

\* The quote character of the builder's dialect.
QuoteRune == IF qb.driver = "postgres" THEN 34 ELSE 96

\* The placeholder of the builder's dialect for the i-th parameter.
PlaceholderAt(i) == IF qb.driver = "postgres" THEN <<36>> \o Itoa(i) ELSE <<63>>

\* The number of positions of s at which sub occurs.
CountSub(s, sub) ==
    Cardinality({i \in 1..(Len(s) - Len(sub) + 1) :
                    SubSeq(s, i, i + Len(sub) - 1) = sub})

\* C11: in BuildSelect and BuildCount the i-th condition visited, with key k
\* and value v, gives the clause <quoted k> LIKE <placeholder i> when v is a
\* string with a % or a _ in it, and <quoted k> = <placeholder i> for every
\* other v (another string, a number, a boolean); v itself is the i-th
\* parameter, unchanged; and when there is a condition the text holds
\* ' WHERE ' once, followed by the clauses joined with ' AND '.
C11_LikeHeuristic ==
    (call.op \in {"BuildSelect", "BuildCount"} /\ ncalls > 0) =>
        /\ Len(out.clauses) = Len(out.order)
        /\ Len(out.params) = Len(out.order)
        /\ \A i \in 1..Len(out.order) :
             LET k == out.order[i]
                 v == call.conditions[k]
                 like == /\ v.t = "string"
                         /\ \E j \in 1..Len(v.s) : v.s[j] \in {37, 95}
                 col == <<QuoteRune>> \o k \o <<QuoteRune>>
             IN  /\ out.clauses[i] =
                       col \o (IF like THEN <<32, 76, 73, 75, 69, 32>>
                                       ELSE <<32, 61, 32>>) \o PlaceholderAt(i)
                 /\ out.params[i] = v
        /\ IF Len(out.order) > 0
           THEN /\ CountSub(out.text, KwWhere) = 1
                /\ Contains(out.text, KwWhere \o Join(out.clauses, KwAnd))
           ELSE CountSub(out.text, KwWhere) = 0

\* BuildSelect has returned for two conditions, the first visited a string
\* with _ (a LIKE clause), the second a string without % or _ (an equality).
C11_Witness ==
    /\ Returned("BuildSelect")
    /\ Len(out.order) = 2
    /\ call.conditions[out.order[1]] = StrVal(<<118, 95>>)
    /\ call.conditions[out.order[2]] = StrVal(<<118, 59>>)
    /\ Contains(out.text, <<32, 76, 73, 75, 69, 32>>)
    /\ Contains(out.text, <<32, 65, 78, 68, 32>>)

---------------------------------------------------------------------------
(* C12 *)

\* What the call made returns from a builder of the given dialect, the
\* condition map visited in the order the call made visited it.
OutputOf(driver) ==
    CASE call.op = "BuildSelect" ->
            BuildSelect(driver, call.table, call.conditions, out.order,
                        call.limit, call.offset, call.orderBy)
      [] call.op = "BuildCount" ->
            BuildCount(driver, call.table, call.conditions, out.order)
      [] call.op = "BuildAggregation" ->
            BuildAggregation(driver, call.table, call.column, call.aggFunc,
                             call.conditions, out.order, call.groupBy)
      [] call.op = "BuildTableList" -> BuildTableList(driver, call.s)
      [] call.op = "BuildTableSchema" ->
            BuildTableSchema(driver, call.table, call.s)
      [] call.op = "BuildTableList_part_010" ->
            BuildTableList_part_010(driver, call.s)
      [] call.op = "BuildTableSchema_part_010" ->
            BuildTableSchema_part_010(driver, call.table, call.s)
      [] call.op = "isValidIdentifier" -> BoolResult(isValidIdentifier(call.s))
      [] call.op = "isValidOrderBy" -> BoolResult(isValidOrderBy(call.s))

\* The operations that build a query.
BuildOps ==
    { "BuildSelect", "BuildCount", "BuildAggregation", "BuildTableList",
      "BuildTableSchema", "BuildTableList_part_010", "BuildTableSchema_part_010" }

\* C12: the table name and every condition key are wrapped in double quotes
\* when the dialect is exactly "postgres" and in backticks for every other
\* dialect ("mysql" or unknown); a builder of an unknown dialect writes ?
\* placeholders and no $n; and what it returns from any query-building
\* operation (select, count, aggregation, table list, table schema) is what
\* a "mysql" builder returns for the same arguments.
C12_UnknownDialectAsMySQL ==
    (call.op \in BuildOps /\ ncalls > 0) =>
        /\ (call.op \in {"BuildSelect", "BuildCount", "BuildAggregation"}
                /\ out.err = "nil") =>
              /\ Contains(out.text, <<32, 70, 82, 79, 77, 32, QuoteRune>>
                                        \o call.table \o <<QuoteRune>>)
              /\ \A i \in 1..Len(out.clauses) :
                   LET k == out.order[i]
                   IN  SubSeq(out.clauses[i], 1, Len(k) + 2) =
                           <<QuoteRune>> \o k \o <<QuoteRune>>
        /\ qb.driver \notin {"mysql", "postgres"} =>
              /\ out = OutputOf("mysql")
              /\ CountRune(out.text, 36) = 0
              /\ call.op \in {"BuildSelect", "BuildCount", "BuildAggregation"} =>
                    CountRune(out.text, 63) = Len(out.params)

\* A builder of the unknown dialect sqlite has built a select with two
\* conditions: the text holds backticks and two ? placeholders.
C12_Witness ==
    /\ qb.driver = "sqlite"
    /\ Returned("BuildSelect")
    /\ Len(out.params) = 2
    /\ CountRune(out.text, 63) = 2
    /\ Contains(out.text, <<96, 116, 96>>)

---------------------------------------------------------------------------
(* C13 *)

KwSelectStar == <<83, 69, 76, 69, 67, 84, 32, 42>>
KwSelectCount == <<83, 69, 76, 69, 67, 84, 32, 67, 79, 85, 78, 84, 40, 42, 41>>

\* C13: what BuildCount returns is what BuildSelect returns for the same
\* dialect, table and condition map, visited in the same order, with
\* limit 0, offset 0 and no orderBy: the parameter lists are equal, and the
\* text is BuildSelect's with its leading 'SELECT *' replaced by
\* 'SELECT COUNT(*)'.
C13_CountAsSelect ==
    Returned("BuildCount") =>
        LET sel == BuildSelect(qb.driver, call.table, call.conditions, out.order,
                               0, 0, <<>>)
        IN  /\ SubSeq(sel.text, 1, Len(KwSelectStar)) = KwSelectStar
            /\ out.text = KwSelectCount
                            \o SubSeq(sel.text, Len(KwSelectStar) + 1, Len(sel.text))
            /\ out.params = sel.params
            /\ out.clauses = sel.clauses

\* BuildCount has returned for two conditions, one of them a LIKE pattern.
C13_Witness ==
    /\ Returned("BuildCount")
    /\ Len(out.params) = 2
    /\ Contains(out.text, <<32, 76, 73, 75, 69, 32>>)
    /\ Contains(out.text, <<32, 61, 32>>)

---------------------------------------------------------------------------
(* C14 *)

\* C14: BuildAggregation writes every condition as an equality: the i-th
\* condition visited, with key k, gives <quoted k> = <placeholder i>
\* whatever its value, a string with % or _ included, and the text holds
\* no LIKE.
C14_AggregationEqualityOnly ==
    (Returned("BuildAggregation") /\ out.err = "nil") =>
        /\ Len(out.clauses) = Len(out.order)
        /\ \A i \in 1..Len(out.order) :
             out.clauses[i] =
                 <<QuoteRune>> \o out.order[i] \o <<QuoteRune>> \o <<32, 61, 32>>
                     \o PlaceholderAt(i)
        /\ ~Contains(out.text, <<76, 73, 75, 69>>)
        /\ Len(out.order) > 0 =>
              Contains(out.text, KwWhere \o Join(out.clauses, KwAnd))

\* BuildAggregation has returned a query for two conditions whose values
\* are the strings %v and v_.
C14_Witness ==
    /\ Returned("BuildAggregation")
    /\ out.err = "nil"
    /\ Len(out.order) = 2
    /\ call.conditions[out.order[1]] = StrVal(<<37, 118>>)
    /\ call.conditions[out.order[2]] = StrVal(<<118, 95>>)
    /\ out.params = <<StrVal(<<37, 118>>), StrVal(<<118, 95>>)>>

---------------------------------------------------------------------------
(* C15 *)

KwSelect == <<83, 69, 76, 69, 67, 84, 32>>
KwGroupBy == <<32, 71, 82, 79, 85, 80, 32, 66, 89, 32>>

\* C15: when groupBy is not empty and is a valid identifier, the text of
\* BuildAggregation is the text of the same call without groupBy, with the
\* quoted groupBy and ', ' put at the front of the SELECT list and
\* ' GROUP BY <quoted groupBy>' put at the end (the parameters are the
\* same); otherwise, groupBy empty or invalid, the call returns what the
\* same call returns for groupBy = "" (text, parameters and error), and
\* its text holds no GROUP BY.
C15_GroupBy ==
    Returned("BuildAggregation") =>
        LET base == BuildAggregation(qb.driver, call.table, call.column,
                                     call.aggFunc, call.conditions, out.order, <<>>)
            g == call.groupBy
            valid == /\ g # <<>>
                     /\ \A i \in 1..Len(g) :
                          \/ g[i] \in 97..122 \/ g[i] \in 65..90
                          \/ g[i] \in 48..57 \/ g[i] \in {95, 46}
            qg == <<QuoteRune>> \o g \o <<QuoteRune>>
        IN  /\ ~Contains(base.text, KwGroupBy)
            /\ out.err = base.err
            /\ out.params = base.params
            /\ (valid /\ out.err = "nil") =>
                  /\ SubSeq(base.text, 1, Len(KwSelect)) = KwSelect
                  /\ out.text = KwSelect \o qg \o <<44, 32>>
                                  \o SubSeq(base.text, Len(KwSelect) + 1,
                                            Len(base.text))
                                  \o KwGroupBy \o qg
            /\ ~valid => out = base

\* BuildAggregation has returned a query for the invalid groupBy g; .
C15_WitnessInvalid ==
    /\ Returned("BuildAggregation")
    /\ out.err = "nil"
    /\ call.groupBy = <<103, 59>>
    /\ ~Contains(out.text, KwGroupBy)

\* BuildAggregation has returned a grouped query for the groupBy g.
C15_Witness ==
    /\ Returned("BuildAggregation")
    /\ out.err = "nil"
    /\ call.groupBy = <<103>>
    /\ Len(out.params) > 0
    /\ Contains(out.text, KwGroupBy)

---------------------------------------------------------------------------
(* C18 *)

\* s is a valid identifier: not empty, of letters, digits, _ and . only.
ValidName(s) ==
    /\ s # <<>>
    /\ \A i \in 1..Len(s) :
         \/ s[i] \in 97..122 \/ s[i] \in 65..90 \/ s[i] \in 48..57
         \/ s[i] \in {95, 46}

\* The rule of C18 for one of the two texts of BuildTableList.
SchemaFallback(op) ==
    (call.op = op /\ ncalls > 0) =>
        LET schema == call.s
            default == IF op = "BuildTableList"
                       THEN BuildTableList(qb.driver, <<>>)
                       ELSE BuildTableList_part_010(qb.driver, <<>>)
        IN  /\ (schema # <<>> /\ ~ValidName(schema)) =>
                  /\ out = default
                  /\ ~Contains(out.text, schema)
                  /\ \A i \in 1..Len(out.params) : out.params[i] # StrVal(schema)
            /\ ValidName(schema) =>
                  /\ out.params = <<StrVal(schema)>>
                  /\ out.text = TableListSelect \o PlaceholderAt(1) \o TableListRest
            /\ Contains(default.text,
                        IF qb.driver = "postgres" THEN Public ELSE DatabaseCall)
                  \/ default.params = <<StrVal(Public)>>

\* C18: BuildTableList, called with a schema that is not empty and not a
\* valid identifier, returns what it returns for schema = "" (the query of
\* the default schema: public for Postgres, DATABASE() for MySQL), and the
\* schema given is neither in the text nor among the parameters; a valid
\* schema is the one bound parameter of a query with one placeholder. The
\* rule is stated of both texts of BuildTableList.
C18_InvalidSchemaFallsBack ==
    SchemaFallback("BuildTableList") /\ SchemaFallback("BuildTableList_part_010")

\* The rule of C18 holds of the BuildTableList of unnamed/part_010.
C18_part_010_FallsBack == SchemaFallback("BuildTableList_part_010")

\* The BuildTableList of unnamed/part_010 has returned the default query
\* for the schema s' .
C18_part_010_Witness ==
    /\ Returned("BuildTableList_part_010")
    /\ call.s = <<115, 39>>
    /\ ~Contains(out.text, <<39, 115, 39, 39>>)

---------------------------------------------------------------------------
(* C16 *)

\* The operation requested has returned.
Handled(tool) == request.tool = tool /\ response # NoResponse

\* The rule of C16 for the repositories of the given types.
BindsUnvalidatedNames(types) ==
    (/\ request.tool \in {"GetTableList", "GetTableInfo", "GetForeignKeys"}
     /\ response # NoResponse
     /\ srv.repositories[request.args.database.v].type \in types) =>
        LET name == request.args.table.v
        IN  (name # <<>> /\ ~ValidName(name)) =>
                \A i \in 1..Len(sent) : ~Contains(sent[i].text, name)

\* C16: the lookups of the repositories (GetTableList, GetTableInfo with
\* its column query and its row-count query, GetForeignKeys) put no table
\* name that is not a valid identifier into the text of a query they send:
\* the text of every query sent for such a name does not contain it (the
\* name travels as a parameter or not at all).
C16_LookupsBindUnvalidatedNames ==
    BindsUnvalidatedNames({"MySQLRepository", "PostgresRepository"})

\* The rule of C16 holds of the Postgres repository.
C16_PostgresRepository_Binds == BindsUnvalidatedNames({"PostgresRepository"})

\* The Postgres repository has sent the foreign-key query for the name t' .
C16_PostgresRepository_Witness ==
    /\ Handled("GetForeignKeys")
    /\ srv.repositories[request.args.database.v].type = "PostgresRepository"
    /\ request.args.table.v = <<116, 39>>
    /\ Len(sent) = 1
    /\ sent[1].params = <<StrVal(<<116, 39>>)>>

---------------------------------------------------------------------------
(* C17 *)

\* C17: GetTableInfo, called with a table name that is not a valid
\* identifier, returns an error and sends no query to the database, on
\* the MySQL repository and on the Postgres repository.
C17_InvalidTableIsHardError ==
    (Handled("GetTableInfo") /\ ~ValidName(request.args.table.v)) =>
        /\ response.isError
        /\ sent = <<>>

\* The rule of C17 holds of the Postgres repository.
C17_PostgresRepository_HardError ==
    (/\ Handled("GetTableInfo")
     /\ srv.repositories[request.args.database.v].type = "PostgresRepository"
     /\ ~ValidName(request.args.table.v)) =>
        /\ response.isError
        /\ sent = <<>>

---------------------------------------------------------------------------
(* C19 *)

\* The handlers of the tools.
ToolNames ==
    { "db_query", "db_table_list", "db_table_preview", "db_list_databases",
      "analytics", "semantic_summary" }

\* C19: when a db_query request is in dry-run mode (its dry_run argument is
\* true, or it has none and DefaultDryRun is true), HandleDBQuery sends no
\* query to the database; unless an argument is missing or wrong it returns
\* a preview, marked dry_run, holding the text and the parameters
\* BuildSelect gives for the request (limit and offset brought into range).
\* And a server without repositories sends no query, whatever the tool.
C19_DryRunSendsNothing ==
    /\ (/\ Handled("db_query")
        /\ IF request.args.dry_run.present THEN request.args.dry_run.v
           ELSE srv.config.DefaultDryRun) =>
          LET args == request.args
              wellFormed == /\ args.database.present
                            /\ args.table.present
                            /\ args.database.v \in DOMAIN srv.repositories
                            /\ args.conditions.json # "invalid"
              max == srv.config.MaxRows
              limit == IF args.limit.present /\ args.limit.v > 0
                          /\ args.limit.v <= max
                       THEN args.limit.v ELSE max
              offset == IF args.offset.present /\ args.offset.v > 0
                        THEN args.offset.v ELSE 0
              orderBy == IF args.order_by.present THEN args.order_by.v ELSE <<>>
          IN  /\ sent = <<>>
              /\ response.isError = ~wellFormed
              /\ wellFormed =>
                    /\ response.dry_run
                    /\ \E order \in Orders(args.conditions.map) :
                         LET built == BuildSelect(
                                 srv.repositories[args.database.v].driver,
                                 args.table.v, args.conditions.map, order,
                                 limit, offset, orderBy)
                         IN  /\ response.query = built.text
                             /\ response.params = built.params
    /\ (request.tool \in ToolNames /\ DOMAIN srv.repositories = {}) =>
          sent = <<>>

\* HandleDBQuery has returned a preview with two parameters for a request
\* without a dry_run argument, DefaultDryRun being true.
C19_Witness ==
    /\ Handled("db_query")
    /\ ~request.args.dry_run.present
    /\ srv.config.DefaultDryRun
    /\ response.dry_run
    /\ Len(response.params) = 2
    /\ Contains(response.query, <<32, 76, 73, 77, 73, 84, 32, 53>>)
    /\ sent = <<>>

\* HandleDBQuery has returned an error to a request that asks for
\* execution, the server having no repository.
C19_WitnessNoRepository ==
    /\ Handled("db_query")
    /\ DOMAIN srv.repositories = {}
    /\ request.args.dry_run = BoolArg(FALSE)
    /\ request.args.database.present
    /\ request.args.table.present
    /\ response.isError

---------------------------------------------------------------------------
(* C20 *)

\* Every query sent for a request of one of the given tools was sent under
\* a context with a deadline, that of the configured timeout.
UnderTimeout(tools) ==
    request.tool \in tools =>
        \A i \in 1..Len(sent) :
            /\ sent[i].ctx.deadline
            /\ sent[i].ctx.timeout =
                   IF request.tool = "analytics"
                   THEN srv.config.ExecutionTimeout
                   ELSE srv.config.QueryTimeout

\* C20: every query HandleDBQuery, HandleDBTablePreview, HandleAnalytics and
\* HandleSemanticSummary send to a database is sent under a context that
\* carries the configured timeout.
C20_QueriesUnderTimeout ==
    UnderTimeout({"db_query", "db_table_preview", "analytics", "semantic_summary"})

\* The rule of C20 holds of HandleDBQuery and HandleAnalytics.
C20_QueryAndAnalytics_UnderTimeout == UnderTimeout({"db_query", "analytics"})

\* HandleDBQuery has sent a query.
C20_QueryAndAnalytics_Witness ==
    /\ Handled("db_query")
    /\ Len(sent) = 1
    /\ sent[1].ctx = [deadline |-> TRUE, timeout |-> 30]

\* ---------------------------------------------------------------------
\* C21. HandleDBQuery reports every failure as an error result and never
\* as a function error: whatever the request, it returns a non-nil result
\* and a nil error; a missing database or table argument, an unknown
\* database name and conditions that are not valid JSON each give an
\* error result, and then no query is built and none is sent.
RejectedBeforeBuild ==
    \/ ~request.args.database.present
    \/ ~request.args.table.present
    \/ request.args.database.v \notin DOMAIN srv.repositories
    \/ request.args.conditions.json = "invalid"

C21_FailuresAreErrorResults ==
    Handled("db_query") =>
        /\ response.err = "nil"
        /\ response.kind # "nil"
        /\ RejectedBeforeBuild =>
              /\ response.isError
              /\ response.query = <<>>
              /\ sent = <<>>

\* A db_query request naming a known database and a table, with conditions
\* that are not valid JSON, has been answered.
C21_Witness ==
    /\ Handled("db_query")
    /\ request.args.database.present
    /\ request.args.table.present
    /\ request.args.database.v \in DOMAIN srv.repositories
    /\ request.args.conditions.json = "invalid"
    /\ response.kind = "invalid conditions JSON"

\* ---------------------------------------------------------------------
\* C22. HandleDBQuery clamps pagination: a limit that is absent, not
\* positive or above MaxRows becomes MaxRows, and a negative offset
\* becomes 0; so, MaxRows being positive, the query of every db_query
\* request that gets as far as building one has exactly one LIMIT n with
\* 1 <= n <= MaxRows, and no negative OFFSET.
DBQueryText ==
    IF response.dry_run THEN response.query
    ELSE IF sent # <<>> THEN sent[1].text ELSE <<>>

C22_PaginationClamped ==
    (Handled("db_query") /\ ~RejectedBeforeBuild /\ srv.config.MaxRows > 0) =>
        LET l == request.args.limit
            o == request.args.offset
            n == IF ~l.present \/ l.v <= 0 \/ l.v > srv.config.MaxRows
                 THEN srv.config.MaxRows ELSE l.v
            m == IF ~o.present \/ o.v < 0 THEN 0 ELSE o.v
            tail == IF m > 0 THEN KwOffset \o Itoa(m) ELSE <<>>
        IN  /\ 1 <= n /\ n <= srv.config.MaxRows
            /\ EndsWith(DBQueryText, KwLimit \o Itoa(n) \o tail)
            /\ CountSub(DBQueryText, KwLimit) = 1
            /\ ~Contains(DBQueryText, KwOffset \o <<45>>)

\* A query was sent for a request whose limit exceeds MaxRows and whose
\* offset is negative.
C22_Witness ==
    /\ Handled("db_query")
    /\ request.args.limit.present
    /\ request.args.limit.v > srv.config.MaxRows
    /\ request.args.offset.present
    /\ request.args.offset.v < 0
    /\ sent # <<>>
    /\ EndsWith(sent[1].text, KwLimit \o Itoa(srv.config.MaxRows))

\* ---------------------------------------------------------------------
\* C24. Whenever BuildSelect emits an ORDER BY clause, every sort key of
\* the emitted text (the first token of each comma separated part of the
\* caller's string, which is emitted as given) passes isValidIdentifier.
SortKeys(s) ==
    LET parts == Split(s, 44)
    IN  { Fields(parts[p])[1] : p \in { q \in 1..Len(parts) : Fields(parts[q]) # <<>> } }

C24_EmittedSortKeysValid ==
    (Returned("BuildSelect") /\ Contains(out.text, KwOrderBy \o call.orderBy)
                             /\ call.orderBy # <<>>) =>
        \A key \in SortKeys(call.orderBy) : isValidIdentifier(key)

\* ---------------------------------------------------------------------
\* C25. BuildSelect never emits an ORDER BY clause without a sort key: an
\* orderBy made only of white space, or with an empty comma separated
\* part (a leading, trailing or doubled comma), is not accepted by
\* isValidOrderBy, and no " ORDER BY " text is added for it.
HasEmptyPart(s) ==
    LET parts == Split(s, 44)
    IN  \E p \in 1..Len(parts) : Fields(parts[p]) = <<>>

C25_NoOrderByWithoutSortKey ==
    /\ (Returned("isValidOrderBy") /\ HasEmptyPart(call.s)) => out.ret = FALSE
    /\ (Returned("BuildSelect") /\ HasEmptyPart(call.orderBy)) =>
          ~Contains(out.text, KwOrderBy)

\* ---------------------------------------------------------------------
\* C26. quoteIdentifier strips every leading and trailing backtick and
\* double quote before it wraps the name, so for a fixed dialect it is
\* idempotent: quoting its own output gives that output again; and the
\* output is the builder's quote rune, a name with no quote rune at either
\* end, and the builder's quote rune: a name already quoted in either
\* style comes back in the builder's style, no quote rune doubled at an end.
QuoteRunes == { 96, 34 }

C26_QuoteIdentifierIdempotent ==
    Returned("quoteIdentifier") =>
        LET n == Len(out.text)
            inner == SubSeq(out.text, 2, n - 1)
        IN  /\ quoteIdentifier(qb.driver, out.text) = out.text
            /\ n >= 2
            /\ out.text[1] = QuoteRune
            /\ out.text[n] = QuoteRune
            /\ inner # <<>> => /\ inner[1] \notin QuoteRunes
                               /\ inner[Len(inner)] \notin QuoteRunes

\* A MySQL builder has quoted a name that came in PostgreSQL quotes.
C26_Witness ==
    /\ Returned("quoteIdentifier")
    /\ qb.driver = "mysql"
    /\ call.s = <<34, 97, 34>>
    /\ out.text = <<96, 97, 96>>

\* ---------------------------------------------------------------------
\* C23. The builder is stateless: BuildSelect, BuildCount,
\* BuildAggregation, BuildTableList and BuildTableSchema never modify the
\* builder's dialect or the condition map passed in, so however the
\* statements of concurrent calls on one builder interleave, each call
\* returns what the same call returns when it runs alone.
Alone(g) ==
    LET c == gos[g].call
        order == gos[g].order
    IN  IF c.op = "BuildSelect"
        THEN BuildSelect(qb.driver, c.table, mem.conditions, order, c.limit,
                         c.offset, c.orderBy)
        ELSE IF c.op = "BuildCount"
        THEN BuildCount(qb.driver, c.table, mem.conditions, order)
        ELSE IF c.op = "BuildAggregation"
        THEN BuildAggregation(qb.driver, c.table, c.column, c.aggFunc,
                              mem.conditions, order, c.groupBy)
        ELSE IF c.op = "BuildTableList" THEN BuildTableList(qb.driver, c.s)
        ELSE BuildTableSchema(qb.driver, c.table, c.s)

C23_Stateless ==
    /\ [](\A g \in Goroutines : gos[g].pc = "done" => gos[g].ret = Alone(g))
    /\ [][qb' = qb /\ mem'.conditions = mem.conditions]_vars

\* Both goroutines have returned from a call with a loop over two
\* conditions, which they visited in different orders.
C23_Witness ==
    /\ \A g \in Goroutines : gos[g].pc = "done" /\ Len(gos[g].order) = 2
    /\ gos["g1"].order # gos["g2"].order
    /\ gos["g1"].call.op = "BuildSelect"
    /\ gos["g2"].call.op = "BuildAggregation"

\* ---------------------------------------------------------------------
\* C27. HandleRedisScan returns at most MaxScanKeys keys, whatever the
\* backend replies to its SCAN calls: once the loop has ended (the cursor
\* is back to 0 or the cap is reached), the keys of the result, and the
\* count it reports, number at most MaxScanKeys.
C27_ScanReturnsAtMostMaxScanKeys ==
    (scan.pc = "done" /\ ~scan.result.isError) =>
        /\ Len(scan.result.keys) <= scan.config.MaxScanKeys
        /\ scan.result.count <= scan.config.MaxScanKeys

\* ---------------------------------------------------------------------
\* C28. HandleIntrospection with the Redis cache enabled.  A request
\* without refresh whose cache key holds a non-empty value, in the client
\* the handler reads and the read succeeding, returns that text and sends
\* no query to the backend.  A request with refresh = true never reads the
\* cache, always queries the backend and, having a fresh result, writes it
\* under the cache key with the configured TTL.  A failed cache read or
\* write never fails the request: it is answered as the backend answers.
IntroHandled ==
    /\ intro.result # NoIntroResult
    /\ intro.database.present
    /\ intro.database.v \in DOMAIN intro.repositories

CacheEnabled ==
    intro.config.UseRedisCache /\ DOMAIN intro.redisClients # {}

IntroRefresh == intro.refresh.present /\ intro.refresh.v

IntroGets == { i \in 1..Len(intro.cacheOps) : intro.cacheOps[i].op = "Get" }
IntroSets == { i \in 1..Len(intro.cacheOps) : intro.cacheOps[i].op = "Set" }

C28_IntrospectionCache ==
    (IntroHandled /\ CacheEnabled) =>
        LET ops == intro.cacheOps
            key == CacheKey(intro.database.v)
        IN  /\ ~IntroRefresh =>
                  /\ IntroGets = {1}
                  /\ ops[1].key = key
                  /\ (~ops[1].err /\ intro.redisClients[ops[1].client] # "") =>
                        /\ intro.result = IntroResult(FALSE,
                                               intro.redisClients[ops[1].client])
                        /\ intro.sent = <<>>
                        /\ IntroSets = {}
            /\ IntroRefresh =>
                  /\ IntroGets = {}
                  /\ intro.sent # <<>>
                  /\ ~intro.result.isError =>
                        /\ IntroSets = {Len(ops)}
                        /\ ops[Len(ops)].key = key
                        /\ ops[Len(ops)].value = intro.result.text
                        /\ ops[Len(ops)].ttl = intro.config.CacheTTL
            /\ intro.result.err = "nil"
            /\ intro.result.isError =>
                  /\ intro.result.text = "failed to get table list"
                  /\ intro.sent # <<>>
            /\ (\E i \in 1..Len(ops) : ops[i].err) =>
                  /\ intro.sent # <<>>
                  /\ ~intro.result.isError => intro.result.text = "fresh"

\* A request without refresh has been answered from the cache of a
\* handler with two Redis clients.
C28_Witness ==
    /\ IntroHandled
    /\ CacheEnabled
    /\ ~IntroRefresh
    /\ Cardinality(DOMAIN intro.redisClients) = 2
    /\ intro.result = IntroResult(FALSE, "cached one")
    /\ intro.sent = <<>>

\* A request with refresh = true has been answered with a fresh result
\* although the write to the cache failed.
C28_WitnessRefresh ==
    /\ IntroHandled
    /\ CacheEnabled
    /\ IntroRefresh
    /\ intro.result = IntroResult(FALSE, "fresh")
    /\ Len(intro.cacheOps) = 1
    /\ intro.cacheOps[1].op = "Set"
    /\ intro.cacheOps[1].err

\* ---------------------------------------------------------------------
\* C29. Manager.StopAll terminates: once it has cancelled the manager
\* context and called Stop on every transport, every goroutine launched by
\* StartAll (one per transport, and the health checker) finishes, so the
\* wait in StopAll returns, and so does a pending Manager.Wait, whichever
\* transports are enabled, stdio included.
GoroutinesDone ==
    /\ \A t \in DOMAIN mgr.go : mgr.go[t] = "done"
    /\ mgr.checker = "done"

C29_StopAllTerminates ==
    /\ (mgr.stopAll.pc = "wait") ~> (GoroutinesDone /\ mgr.stopAll.pc = "returned")
    /\ (mgr.stopAll.pc = "wait" /\ mgr.wait = "waiting") ~> (mgr.wait = "returned")

\* ---------------------------------------------------------------------
\* C30. After Manager.StopAll has returned every transport reports
\* IsHealthy() = false, however the Start goroutines launched by StartAll
\* interleave with StopAll, StopAll running before a Start goroutine has
\* executed its first statement included.
C30_UnhealthyAfterStopAll ==
    mgr.stopAll.pc = "returned" => \A t \in DOMAIN mgr.healthy : ~mgr.healthy[t]

=============================================================================
